---- MODULE Spec2Model ----
(***************************************************************************)
(* Model of the analysis worker's feature extraction (AnalysisService in   *)
(* workers/analysis/analysis_service.py) and of its music theory reasoner  *)
(* (MusicTheoryAnalyzer in workers/analysis/music_theory_analyzer.py).     *)
(*                                                                         *)
(* Numbers.  Tempi inside _extract_tempo are integers in 1/1000 bpm; the   *)
(* value it returns (round(bpm, 2)) is an integer in 1/100 bpm.  Durations *)
(* are whole seconds.  A time in seconds is an exact fraction [n, d]       *)
(* (n/d s); confidences are in tenths (0.8 is 8).  Floating point rounding *)
(* error is not modelled: arithmetic is exact.                             *)
(*                                                                         *)
(* Strings that the code parses (chord names, keys) are sequences of       *)
(* one-character strings: "C major" is <<"C", " ", "m", "a", "j", "o", "r">>. *)
(***************************************************************************)
EXTENDS Integers, Sequences, FiniteSets, TLC

(***************************************************************************)
(* Bounds of the model.                                                    *)
(***************************************************************************)
\* longest list of tempo candidates the tempo primitive returns
MaxCands == 2
\* longest signal (s) given to _extract_beats and analyze_music
MaxDuration == 3
\* most beat frames the beat tracker returns
MaxTracked == 3
\* most 0.5 s windows of the chroma matrix given to _extract_chords
MaxChromaWindows == 52

(***************************************************************************)
(* Program constants.                                                      *)
(***************************************************************************)
\* self.sample_rate
SampleRate == 44100
\* hop_length of frames_to_time
HopLength == 512
\* the default tempo, 120.0 bpm, in 1/100 bpm
DefaultBpm == 12000
\* chords[:50]
MaxChords == 50

\* all sequences over S of length at most n
SeqsUpTo(S, n) == UNION {[1 .. k -> S] : k \in 0 .. n}

Min(a, b) == IF a <= b THEN a ELSE b
Max(a, b) == IF a >= b THEN a ELSE b

(***************************************************************************)
(* Exact fractions for times in seconds.                                   *)
(***************************************************************************)
Frac(n, d) == [n |-> n, d |-> d]
FracLt(a, b) == IF a.d = b.d THEN a.n < b.n ELSE a.n * b.d < b.n * a.d
FracLe(a, b) == IF a.d = b.d THEN a.n <= b.n ELSE a.n * b.d <= b.n * a.d
FracEq(a, b) == IF a.d = b.d THEN a.n = b.n ELSE a.n * b.d = b.n * a.d

\* librosa.frames_to_time(frames, sr, hop_length): frame * hop_length / sr
FramesToTime(f) == Frac(f * HopLength, SampleRate)

(***************************************************************************)
(* _extract_tempo: the pure steps after the tempo candidates are known.    *)
(* Arguments and results are in 1/1000 bpm.                                *)
(***************************************************************************)
Reasonable(t) == 80000 <= t /\ t <= 140000

\* the selection that always takes the first candidate
SelectTempoFirstOnly(c) == c[1]

\* lines 452-461: the first candidate in [80, 140], else the first one
SelectTempo(c) ==
    IF Len(c) > 1
    THEN LET reasonable_candidates == SelectSeq(c, Reasonable)
         IN  IF Len(reasonable_candidates) > 0
             THEN reasonable_candidates[1]
             ELSE c[1]
    ELSE c[1]

\* the octave correction that only ever halves
OctaveCorrectHalfOnly(b) == IF b > 160000 THEN b \div 2 ELSE b

\* an octave correction that starts above 180, the top of the final check
OctaveCorrectAbove180(b) ==
    IF b > 180000
    THEN LET bpm_half == b \div 2
         IN  IF 60000 <= bpm_half /\ bpm_half <= 140000
             THEN bpm_half
             ELSE LET bpm_quarter == b \div 4
                  IN  IF 60000 <= bpm_quarter /\ bpm_quarter <= 140000
                      THEN bpm_quarter
                      ELSE b
    ELSE b

\* lines 463-475: half, else quarter, of a tempo above 160
OctaveCorrect(b) ==
    IF b > 160000
    THEN LET bpm_half == b \div 2
         IN  IF 60000 <= bpm_half /\ bpm_half <= 140000
             THEN bpm_half
             ELSE LET bpm_quarter == b \div 4
                  IN  IF 60000 <= bpm_quarter /\ bpm_quarter <= 140000
                      THEN bpm_quarter
                      ELSE b
    ELSE b

\* the final sanity check without its upper bound
FinalClampLowerOnly(b) == IF b < 60000 THEN 120000 ELSE b

\* lines 477-480: the final sanity check
FinalClamp(b) == IF b < 60000 \/ b > 180000 THEN 120000 ELSE b

\* line 483: round(bpm, 2), ties to even; 1/1000 bpm to 1/100 bpm
Round2(b) ==
    LET q == b \div 10
        r == b % 10
    IN  IF r < 5 THEN q
        ELSE IF r > 5 THEN q + 1
        ELSE IF q % 2 = 0 THEN q ELSE q + 1

(***************************************************************************)
(* Note names and keys, as sequences of one-character strings.             *)
(***************************************************************************)
NOTE_NAMES == << <<"C">>, <<"C", "#">>, <<"D">>, <<"D", "#">>, <<"E">>, <<"F">>,
                <<"F", "#">>, <<"G">>, <<"G", "#">>, <<"A">>, <<"A", "#">>, <<"B">> >>
MajorChars == <<"m", "a", "j", "o", "r">>
MinorChars == <<"m", "i", "n", "o", "r">>

\* lines 539-543: f"{best_key} major" / f"{best_key} minor"
FormatKey(root, mode) ==
    IF mode = "major"
    THEN NOTE_NAMES[root] \o <<" ">> \o MajorChars
    ELSE NOTE_NAMES[root] \o <<" ">> \o MinorChars

\* line 553: the key returned when the extraction raises, "C major"
DefaultKey == <<"C", " ">> \o MajorChars
\* lines 546 and 553: tuning = 440.0
DefaultTuning == 440

(***************************************************************************)
(* _extract_beats: the pure steps.  bpmC is the corrected tempo in         *)
(* 1/100 bpm, so that beat_interval = 60 / bpm = 6000 / bpmC seconds.      *)
(***************************************************************************)
\* lines 583-593 (and 622-632, 655-665): the loop "while time < duration"
RECURSIVE SyntheticLoop(_, _, _, _, _)
SyntheticLoop(acc, i, bpmC, dur, conf) ==
    IF i * 6000 < dur * bpmC
    THEN SyntheticLoop(Append(acc, [time |-> Frac(i * 6000, bpmC),
                                     position |-> i + 1,
                                     confidence |-> conf]),
                       i + 1, bpmC, dur, conf)
    ELSE acc

SyntheticBeats(bpmC, dur, conf) == SyntheticLoop(<<>>, 0, bpmC, dur, conf)

\* the tracked beats numbered from 0, as enumerate() numbers them
TrackedBeatsFromZero(frames) ==
    [i \in 1 .. Len(frames) |-> [time |-> FramesToTime(frames[i]),
                                 position |-> i - 1,
                                 confidence |-> 8]]

\* lines 636-644: frames_to_time and the Beat records of the tracked path
TrackedBeats(frames) ==
    [i \in 1 .. Len(frames) |-> [time |-> FramesToTime(frames[i]),
                                 position |-> i,
                                 confidence |-> 8]]

\* line 648: expected_beats = int((corrected_bpm * duration) / 60.0)
ExpectedBeats(bpmC, dur) == (bpmC * dur) \div 6000

Abs(x) == IF x < 0 THEN -x ELSE x

\* a check that also discards the beats that are exactly half off
BeatCountMismatchInclusive(actual, expected) == 2 * Abs(actual - expected) >= expected

\* line 652: abs(actual_beats - expected_beats) > expected_beats * 0.5
BeatCountMismatch(actual, expected) == 2 * Abs(actual - expected) > expected

\* lines 636-668: the tracked path with its sanity check
BeatsFromFrames(frames, bpmC, dur) ==
    LET tracked == TrackedBeats(frames)
    IN  IF BeatCountMismatch(Len(tracked), ExpectedBeats(bpmC, dur))
        THEN SyntheticBeats(bpmC, dur, 6)
        ELSE tracked

(***************************************************************************)
(* _extract_sections: the pure steps.                                      *)
(***************************************************************************)
section_labels ==
    <<"intro", "verse", "chorus", "verse", "chorus", "bridge", "chorus", "outro">>

\* line 681: k = min(6, max(3, int(duration / 30)))
SectionCount(dur) == Min(6, Max(3, dur \div 30))

\* lines 709 and 727: the label of section i (0-based)
SectionLabel(i) == IF i < Len(section_labels) THEN section_labels[i + 1] ELSE "section"

\* lines 708-715 and 726-733: one section per adjacent pair of bound times
SectionsFromBounds(bound_times, conf) ==
    [j \in 1 .. (IF Len(bound_times) > 0 THEN Len(bound_times) - 1 ELSE 0) |->
        [label |-> SectionLabel(j - 1),
         start_time |-> bound_times[j],
         end_time |-> bound_times[j + 1],
         confidence |-> conf]]

\* the fallback with range(num_sections) bound times: one section too few
FallbackSectionsShort(dur) ==
    LET num_sections == SectionCount(dur)
        bound_times == [j \in 1 .. num_sections |-> Frac((j - 1) * dur, num_sections)]
    IN  SectionsFromBounds(bound_times, 5)

\* lines 701-718: the time based fallback sections
FallbackSections(dur) ==
    LET num_sections == SectionCount(dur)
        \* i * section_duration with section_duration = duration / num_sections
        bound_times == [j \in 1 .. num_sections + 1 |-> Frac((j - 1) * dur, num_sections)]
    IN  SectionsFromBounds(bound_times, 5)

\* the clustered sections marked with the fallback's confidence
ClusteredSectionsAsFallback(bounds) ==
    SectionsFromBounds([j \in 1 .. Len(bounds) |-> FramesToTime(bounds[j])], 5)

\* lines 721-736: sections from the clustering's boundary frames
ClusteredSections(bounds) ==
    SectionsFromBounds([j \in 1 .. Len(bounds) |-> FramesToTime(bounds[j])], 8)

(***************************************************************************)
(* _extract_chords: the pure steps.  A chroma matrix is [frames, roots]:   *)
(* its number of columns and, for the w-th 0.5 s window, the pitch class   *)
(* of greatest mean energy roots[(w mod Len(roots)) + 1].                  *)
(***************************************************************************)
\* line 769: step = int(0.5 * sr / 512)
ChordStep == SampleRate \div (2 * HopLength)

\* line 771: range(0, chroma.shape[1] - step, step)
ChordWindowStarts(n) == {i \in 0 .. Max(n - ChordStep, 0) - 1 : i % ChordStep = 0}

\* lines 772-773: np.argmax of the window's mean chroma
WindowRoot(chroma, i) == chroma.roots[((i \div ChordStep) % Len(chroma.roots)) + 1]

\* lines 775-780: the chord of the window that starts at frame i
ChordAt(chroma, i) ==
    [chord |-> NOTE_NAMES[WindowRoot(chroma, i) + 1],
     start_time |-> FramesToTime(i),
     end_time |-> FramesToTime(Min(i + ChordStep, chroma.frames - 1)),
     confidence |-> 7]

\* every window's chord, without the cut
ChordsFromChromaUncut(chroma) ==
    LET starts == ChordWindowStarts(chroma.frames)
    IN  [w \in 1 .. Cardinality(starts) |-> ChordAt(chroma, (w - 1) * ChordStep)]

\* lines 765-783: every window's chord, cut to the first 50
ChordsFromChroma(chroma) ==
    LET starts == ChordWindowStarts(chroma.frames)
        all == [w \in 1 .. Cardinality(starts) |-> ChordAt(chroma, (w - 1) * ChordStep)]
    IN  SubSeq(all, 1, Min(Len(all), MaxChords))

(***************************************************************************)
(* The inputs of the model.                                                *)
(***************************************************************************)
\* tempo candidates (1/1000 bpm) given to _extract_tempo called alone
TempoCandValues ==
    {0, 59996, 60000, 79996, 80000, 92000, 120000, 120124, 120125, 120126,
     140000, 140004, 160000, 160004, 180000, 184000, 240250, 240500, 280000,
     280004, 400000, 480500, 560000, 560004, 720000}

\* the candidate lists of the signals given to _extract_beats and analyze_music
SignalCandLists == {<<>>, <<92000>>, <<184000, 100000>>, <<150000>>}

\* beat frames the beat tracker returns: non-decreasing frame indices
BeatFrameValues == {0, 43, 86, 172}
IsNonDecreasing(f) == \A i \in 1 .. Len(f) - 1 : f[i] <= f[i + 1]
BeatFrameLists == {f \in SeqsUpTo(BeatFrameValues, MaxTracked) : IsNonDecreasing(f)}

\* numbers of columns of the chroma matrix: around no window, a few, and the cap
ChromaWindowCounts == (0 .. 3) \cup ((MaxChromaWindows - 3) .. MaxChromaWindows)
ChromaFrameCounts == {w * ChordStep + e : w \in ChromaWindowCounts, e \in 0 .. 1}
ChromaRootPatterns == {<<0>>, <<0, 7, 9, 5>>, <<11, 4>>, <<2, 1, 3>>}
Chromas == [frames : ChromaFrameCounts, roots : ChromaRootPatterns]

\* durations (s) given to _extract_sections
SectionDurations == {0, 1, 29, 30, 45, 89, 90, 105, 119, 120, 149, 150, 170, 180, 181, 240}

\* boundary frames the clustering returns: k increasing frames, the first 0
BoundaryFrameValues == {0, 1000, 2000, 3000, 4000, 5000, 6000}
IsIncreasing(f) == \A i \in 1 .. Len(f) - 1 : f[i] < f[i + 1]
BoundaryLists(k) ==
    {f \in [1 .. k -> BoundaryFrameValues] : f[1] = 0 /\ IsIncreasing(f)}

Entries ==
    {"analyze_music", "_extract_tempo", "_extract_key_tuning", "_extract_chords",
     "_extract_beats", "_extract_sections"}

Features == {"tempo", "key", "chords", "beats", "sections", "beats_tempo"}

(***************************************************************************)
(* The state.                                                              *)
(***************************************************************************)
VARIABLES
    entry,          \* the method of AnalysisService that was called
    duration,       \* len(y) / sr of the signal, in seconds
    cands,          \* the tempo candidates of the signal
    pc,             \* "start", the primitive being awaited, "done" or "raised"
    stack,          \* the methods being executed, the innermost last
    bpm, key, tuning, chords, beats,    \* locals of analyze_music
    corrected_bpm,  \* local of _extract_beats
    ret,            \* what the called method returned: [kind, value]
    status,         \* per feature: Pending, Running, Succeeded, TimedOut, Failed
    tempoTrace,     \* the last _extract_tempo call: its path and its values
    beatsPath,      \* the path the last _extract_beats call took
    beat_frames,    \* the frames its beat tracker returned: line 614
    harmonic_analysis, rhythmic_analysis, instrumentation,
                    \* the arguments of detect_genre_conventions
    genre_patterns, \* self.genre_patterns of the MusicTheoryAnalyzer
    history,        \* the analyzer's finished calls: method, arguments, result
    instances,      \* the analyses running concurrently on one event loop
    pool            \* the event loop's default executor: its threads and queue

vars ==
    <<entry, duration, cands, pc, stack, bpm, key, tuning, chords, beats,
      corrected_bpm, ret, status, tempoTrace, beatsPath, beat_frames,
      harmonic_analysis, rhythmic_analysis, instrumentation, genre_patterns, history,
      instances, pool>>

\* the theory analyzer the service holds (line 47) and what it is called with
analyzer == <<harmonic_analysis, rhythmic_analysis, instrumentation, genre_patterns, history>>

\* the concurrent analyses and the executor they share
executor == <<instances, pool>>

signal == <<entry, duration, cands>>

NoTempoTrace == [path |-> "none", selected |-> 0, corrected |-> 0, bpm |-> 0]
NoReturn == [kind |-> "none", value |-> 0]

InitSignal ==
    \/ /\ entry = "_extract_tempo"
       /\ duration = 0
       /\ cands \in SeqsUpTo(TempoCandValues, MaxCands)
    \/ /\ entry \in {"analyze_music", "_extract_beats"}
       /\ duration \in 0 .. MaxDuration
       /\ cands \in SignalCandLists
    \/ /\ entry \in {"_extract_key_tuning", "_extract_chords"}
       /\ duration = 0
       /\ cands = <<>>
    \/ /\ entry = "_extract_sections"
       /\ duration \in SectionDurations
       /\ cands = <<>>

\* music_theory_analyzer.py lines 647-690: the genre templates in the
\* dictionary's order; bpm in 1/100 bpm, rhythmic_complexity in tenths
GenrePatterns ==
    << [genre |-> "pop",
        common_progressions |-> {"I-V-vi-IV", "vi-IV-I-V", "I-IV-V"},
        bpm_range |-> <<10000, 13000>>,
        instrumentation |-> {"drums", "bass", "guitar", "vocals", "synth"},
        rhythmic_complexity |-> 3],
       [genre |-> "rock",
        common_progressions |-> {"I-IV-V", "I-V-vi-IV", "I-V-IV"},
        bpm_range |-> <<11000, 15000>>,
        instrumentation |-> {"drums", "bass", "guitar", "vocals"},
        rhythmic_complexity |-> 4],
       [genre |-> "jazz",
        common_progressions |-> {"ii-V-I", "I-vi-ii-V"},
        bpm_range |-> <<8000, 18000>>,
        instrumentation |-> {"drums", "bass", "piano", "saxophone"},
        rhythmic_complexity |-> 7],
       [genre |-> "edm",
        common_progressions |-> {"I-V-vi-IV", "vi-IV-I-V"},
        bpm_range |-> <<12000, 14000>>,
        instrumentation |-> {"drums", "bass", "synth"},
        rhythmic_complexity |-> 3],
       [genre |-> "hip-hop",
        common_progressions |-> {"i-VI-III-VII", "i-iv-VI-V"},
        bpm_range |-> <<6000, 10000>>,
        instrumentation |-> {"drums", "bass", "vocals"},
        rhythmic_complexity |-> 5],
       [genre |-> "country",
        common_progressions |-> {"I-IV-V", "I-V-vi-IV"},
        bpm_range |-> <<9000, 13000>>,
        instrumentation |-> {"drums", "bass", "guitar", "vocals"},
        rhythmic_complexity |-> 3] >>

\* music_theory_analyzer.py lines 67-68: the analyzer as constructed, not yet called
AnalyzerIdle ==
    /\ harmonic_analysis = <<>>
    /\ rhythmic_analysis = <<>>
    /\ instrumentation = <<>>
    /\ genre_patterns = GenrePatterns
    /\ history = <<>>

\* no analysis running on the event loop, no executor created yet
ExecutorIdle ==
    /\ instances = <<>>
    /\ pool = [max_workers |-> 0, running |-> {}, queue |-> <<>>]

Init ==
    /\ InitSignal
    /\ AnalyzerIdle
    /\ ExecutorIdle
    /\ pc = "start"
    /\ stack = <<>>
    /\ bpm = 0
    /\ key = <<>>
    /\ tuning = 0
    /\ chords = <<>>
    /\ beats = <<>>
    /\ corrected_bpm = 0
    /\ ret = NoReturn
    /\ status = [f \in Features |-> "Pending"]
    /\ tempoTrace = NoTempoTrace
    /\ beatsPath = "none"
    /\ beat_frames = <<>>

(***************************************************************************)
(* Calls and returns.  A method that finishes hands its value to its       *)
(* caller, which goes on to its next await; called alone, it returns.      *)
(***************************************************************************)
Caller == IF Len(stack) > 1 THEN stack[Len(stack) - 1] ELSE "top"

\* a result that carries time-based sections and a genre
AnalysisResultsWithSections(b) ==
    [bpm |-> bpm,
     key |-> key,
     tuning_frequency |-> tuning,
     duration_seconds |-> duration,
     beats |-> b,
     sections |-> FallbackSections(duration),
     chords |-> chords,
     harmonic_analysis |-> <<>>,
     rhythmic_analysis |-> [complexity_score |-> 0],
     genre_analysis |-> [primary_genre |-> "pop"],
     technical_features |-> <<>>,
     psychoacoustic_features |-> <<>>,
     spectral_features |-> <<>>,
     temporal_features |-> <<>>,
     bark_training_data |-> <<>>]

\* lines 231-256: the dictionary analyze_music returns
AnalysisResults(b) ==
    [bpm |-> bpm,
     key |-> key,
     tuning_frequency |-> tuning,
     duration_seconds |-> duration,
     beats |-> b,
     sections |-> <<>>,
     chords |-> chords,
     harmonic_analysis |-> <<>>,
     rhythmic_analysis |-> [complexity_score |-> 0],
     genre_analysis |-> [primary_genre |-> "unknown"],
     technical_features |-> <<>>,
     psychoacoustic_features |-> <<>>,
     spectral_features |-> <<>>,
     temporal_features |-> <<>>,
     bark_training_data |-> <<>>]

\* _extract_tempo returns b (1/100 bpm): lines 214, 559
TempoDone(b, outcome, trace) ==
    /\ tempoTrace' = [trace EXCEPT !.bpm = b]
    /\ CASE Caller = "analyze_music" ->
              \* line 217: key, tuning = await self._extract_key_tuning(y, sr)
              /\ bpm' = b
              /\ pc' = "k_chroma"
              /\ stack' = <<"analyze_music", "_extract_key_tuning">>
              /\ status' = [status EXCEPT !["tempo"] = outcome, !["key"] = "Running"]
              /\ UNCHANGED <<corrected_bpm, ret>>
         [] Caller = "_extract_beats" ->
              \* lines 559-576: corrected_bpm, then the onset envelope
              /\ corrected_bpm' = b
              /\ pc' = "b_onset"
              /\ stack' = SubSeq(stack, 1, Len(stack) - 1)
              /\ status' = [status EXCEPT !["beats_tempo"] = outcome]
              /\ UNCHANGED <<bpm, ret>>
         [] OTHER ->
              /\ ret' = [kind |-> "float", value |-> b]
              /\ pc' = "done"
              /\ stack' = <<>>
              /\ status' = [status EXCEPT !["tempo"] = outcome]
              /\ UNCHANGED <<bpm, corrected_bpm>>
    /\ UNCHANGED <<signal, analyzer, executor, beat_frames, key, tuning, chords, beats, beatsPath>>

\* _extract_key_tuning returns (k, t): line 217
KeyDone(k, t, outcome) ==
    /\ IF Caller = "analyze_music"
       THEN \* line 221: chords = await self._extract_chords(y, sr)
            /\ key' = k
            /\ tuning' = t
            /\ pc' = "c_chroma"
            /\ stack' = <<"analyze_music", "_extract_chords">>
            /\ status' = [status EXCEPT !["key"] = outcome, !["chords"] = "Running"]
            /\ UNCHANGED ret
       ELSE /\ ret' = [kind |-> "tuple", value |-> <<k, t>>]
            /\ pc' = "done"
            /\ stack' = <<>>
            /\ status' = [status EXCEPT !["key"] = outcome]
            /\ UNCHANGED <<key, tuning>>
    /\ UNCHANGED <<signal, analyzer, executor, beat_frames, bpm, chords, beats, corrected_bpm, tempoTrace, beatsPath>>

\* _extract_chords returns c: line 221
ChordsDone(c, outcome) ==
    /\ IF Caller = "analyze_music"
       THEN \* lines 226 and 559: _extract_beats starts with _extract_tempo
            /\ chords' = c
            /\ pc' = "t_onset"
            /\ stack' = <<"analyze_music", "_extract_beats", "_extract_tempo">>
            /\ status' = [status EXCEPT !["chords"] = outcome, !["beats"] = "Running",
                                        !["beats_tempo"] = "Running"]
            /\ UNCHANGED ret
       ELSE /\ ret' = [kind |-> "list", value |-> c]
            /\ pc' = "done"
            /\ stack' = <<>>
            /\ status' = [status EXCEPT !["chords"] = outcome]
            /\ UNCHANGED chords
    /\ UNCHANGED <<signal, analyzer, executor, beat_frames, bpm, key, tuning, beats, corrected_bpm, tempoTrace, beatsPath>>

\* _extract_beats returns b: lines 226-259
BeatsDone(b, outcome, path) ==
    /\ beatsPath' = path
    /\ pc' = "done"
    /\ stack' = <<>>
    /\ status' = [status EXCEPT !["beats"] = outcome]
    /\ IF Caller = "analyze_music"
       THEN /\ beats' = b
            /\ ret' = [kind |-> "dict", value |-> AnalysisResults(b)]
       ELSE /\ ret' = [kind |-> "list", value |-> b]
            /\ UNCHANGED beats
    /\ UNCHANGED <<signal, analyzer, executor, bpm, key, tuning, chords, corrected_bpm, tempoTrace>>

\* _extract_sections returns s; analyze_music never calls it
SectionsDone(s, outcome) ==
    /\ ret' = [kind |-> "list", value |-> s]
    /\ pc' = "done"
    /\ stack' = <<>>
    /\ status' = [status EXCEPT !["sections"] = outcome]
    /\ UNCHANGED <<signal, analyzer, executor, beat_frames, bpm, key, tuning, chords, beats, corrected_bpm,
                   tempoTrace, beatsPath>>

(***************************************************************************)
(* analyze_music, lines 194-263, and the calls of the other methods.       *)
(***************************************************************************)
Enter(label, frames, feats) ==
    /\ pc = "start"
    /\ pc' = label
    /\ stack' = frames
    /\ status' = [f \in Features |-> IF f \in feats THEN "Running" ELSE status[f]]
    /\ UNCHANGED <<signal, analyzer, executor, beat_frames, bpm, key, tuning, chords, beats, corrected_bpm, ret,
                   tempoTrace, beatsPath>>

\* lines 204-214: librosa.load returns, then _extract_tempo is called
LoadReturn ==
    /\ entry = "analyze_music"
    /\ Enter("t_onset", <<"analyze_music", "_extract_tempo">>, {"tempo"})

\* lines 204 and 261-263: librosa.load raises, analyze_music re-raises
LoadRaise ==
    /\ entry = "analyze_music"
    /\ pc = "start"
    /\ pc' = "raised"
    /\ UNCHANGED <<signal, analyzer, executor, beat_frames, stack, bpm, key, tuning, chords, beats, corrected_bpm,
                   ret, status, tempoTrace, beatsPath>>

CallTempo ==
    /\ entry = "_extract_tempo"
    /\ Enter("t_onset", <<"_extract_tempo">>, {"tempo"})

CallKeyTuning ==
    /\ entry = "_extract_key_tuning"
    /\ Enter("k_chroma", <<"_extract_key_tuning">>, {"key"})

CallChords ==
    /\ entry = "_extract_chords"
    /\ Enter("c_chroma", <<"_extract_chords">>, {"chords"})

CallBeats ==
    /\ entry = "_extract_beats"
    /\ Enter("t_onset", <<"_extract_beats", "_extract_tempo">>, {"beats", "beats_tempo"})

CallSections ==
    /\ entry = "_extract_sections"
    /\ Enter("s_cluster", <<"_extract_sections">>, {"sections"})

(***************************************************************************)
(* _extract_tempo, lines 404-486.                                          *)
(***************************************************************************)
\* lines 411-422: the onset envelope arrives within 30 s
TempoOnsetReturn ==
    /\ pc = "t_onset"
    /\ pc' = "t_cands"
    /\ UNCHANGED <<signal, analyzer, executor, beat_frames, stack, bpm, key, tuning, chords, beats, corrected_bpm,
                   ret, status, tempoTrace, beatsPath>>

\* lines 423-425: asyncio.TimeoutError, return 120.0
TempoOnsetTimeout ==
    /\ pc = "t_onset"
    /\ TempoDone(DefaultBpm, "TimedOut", [NoTempoTrace EXCEPT !.path = "onset_timeout"])

\* lines 484-486: any other exception, return 120.0
TempoOnsetRaise ==
    /\ pc = "t_onset"
    /\ TempoDone(DefaultBpm, "Failed", [NoTempoTrace EXCEPT !.path = "exception"])

\* lines 431-483: the candidates arrive; select, correct, clamp and round.
\* An empty list makes tempo_candidates[0] raise IndexError (lines 484-486).
TempoCandidatesReturn ==
    /\ pc = "t_cands"
    /\ IF Len(cands) = 0
       THEN TempoDone(DefaultBpm, "Failed", [NoTempoTrace EXCEPT !.path = "exception"])
       ELSE LET sel == SelectTempo(cands)
                oct == OctaveCorrect(sel)
            IN  TempoDone(Round2(FinalClamp(oct)), "Succeeded",
                          [path |-> "ok", selected |-> sel, corrected |-> oct, bpm |-> 0])

\* lines 448-450: asyncio.TimeoutError, return 120.0
TempoCandidatesTimeout ==
    /\ pc = "t_cands"
    /\ TempoDone(DefaultBpm, "TimedOut", [NoTempoTrace EXCEPT !.path = "cands_timeout"])

\* lines 484-486
TempoCandidatesRaise ==
    /\ pc = "t_cands"
    /\ TempoDone(DefaultBpm, "Failed", [NoTempoTrace EXCEPT !.path = "exception"])

(***************************************************************************)
(* _extract_key_tuning, lines 488-553.  chroma_cqt is called directly, not *)
(* through wait_for: there is no timeout.  The key of greatest correlation *)
(* is whatever the chroma makes it: any of the 24.                         *)
(***************************************************************************)
KeyRoots == IF entry = "analyze_music" THEN {1, 10} ELSE 1 .. 12

\* lines 492-549
KeyChromaReturn ==
    /\ pc = "k_chroma"
    /\ \E best_key \in KeyRoots, best_mode \in {"major", "minor"} :
           KeyDone(FormatKey(best_key, best_mode), DefaultTuning, "Succeeded")

\* the key extraction without its except clause: the exception reaches analyze_music
KeyChromaRaisePropagates ==
    /\ pc = "k_chroma"
    /\ pc' = "raised"
    /\ UNCHANGED <<signal, analyzer, executor, beat_frames, stack, bpm, key, tuning, chords, beats, corrected_bpm,
                   ret, status, tempoTrace, beatsPath>>

\* lines 551-553
KeyChromaRaise ==
    /\ pc = "k_chroma"
    /\ KeyDone(DefaultKey, DefaultTuning, "Failed")

(***************************************************************************)
(* _extract_chords, lines 742-787.                                         *)
(***************************************************************************)
ChromasGiven ==
    IF entry = "analyze_music"
    THEN {c \in Chromas : c.frames <= 3 * ChordStep /\ Len(c.roots) = 4}
    ELSE Chromas

\* lines 750-783
ChordsChromaReturn ==
    /\ pc = "c_chroma"
    /\ \E chroma \in ChromasGiven : ChordsDone(ChordsFromChroma(chroma), "Succeeded")

\* a chord timeout that ends the whole analysis instead of the extraction
ChordsChromaTimeoutAborts ==
    /\ pc = "c_chroma"
    /\ IF Caller = "analyze_music"
       THEN /\ pc' = "raised"
            /\ status' = [status EXCEPT !["chords"] = "TimedOut"]
            /\ UNCHANGED <<signal, analyzer, executor, beat_frames, stack, bpm, key, tuning, chords, beats,
                           corrected_bpm, ret, tempoTrace, beatsPath>>
       ELSE ChordsDone(<<>>, "TimedOut")

\* lines 758-760
ChordsChromaTimeout ==
    /\ pc = "c_chroma"
    /\ ChordsDone(<<>>, "TimedOut")

\* lines 785-787
ChordsChromaRaise ==
    /\ pc = "c_chroma"
    /\ ChordsDone(<<>>, "Failed")

(***************************************************************************)
(* _extract_beats, lines 555-672.                                          *)
(***************************************************************************)
\* lines 566-577
BeatsOnsetReturn ==
    /\ pc = "b_onset"
    /\ pc' = "b_track"
    /\ UNCHANGED <<signal, analyzer, executor, beat_frames, stack, bpm, key, tuning, chords, beats, corrected_bpm,
                   ret, status, tempoTrace, beatsPath>>

\* lines 578-595
BeatsOnsetTimeout ==
    /\ pc = "b_onset"
    /\ BeatsDone(SyntheticBeats(corrected_bpm, duration, 5), "TimedOut", "onset_timeout")
    /\ UNCHANGED beat_frames

\* lines 670-672
BeatsOnsetRaise ==
    /\ pc = "b_onset"
    /\ BeatsDone(<<>>, "Failed", "exception")
    /\ UNCHANGED beat_frames

BeatFramesGiven ==
    IF entry = "analyze_music"
    THEN {f \in BeatFrameLists : \A i \in 1 .. Len(f) : f[i] \in {0, 86}}
    ELSE BeatFrameLists

\* lines 601-668
BeatsTrackReturn ==
    /\ pc = "b_track"
    /\ \E frames \in BeatFramesGiven :
           /\ beat_frames' = frames
           /\ BeatsDone(BeatsFromFrames(frames, corrected_bpm, duration), "Succeeded",
                        IF BeatCountMismatch(Len(frames),
                                             ExpectedBeats(corrected_bpm, duration))
                        THEN "sanity" ELSE "tracked")

\* lines 617-634
BeatsTrackTimeout ==
    /\ pc = "b_track"
    /\ BeatsDone(SyntheticBeats(corrected_bpm, duration, 5), "TimedOut", "track_timeout")
    /\ UNCHANGED beat_frames

\* lines 670-672
BeatsTrackRaise ==
    /\ pc = "b_track"
    /\ BeatsDone(<<>>, "Failed", "exception")
    /\ UNCHANGED beat_frames

(***************************************************************************)
(* _extract_sections, lines 674-740.                                       *)
(***************************************************************************)
\* lines 690-697 and 720-736
SectionsClusterReturn ==
    /\ pc = "s_cluster"
    /\ \E bounds \in BoundaryLists(SectionCount(duration)) :
           \* the boundaries are indices into y, which has duration * sr samples
           /\ bounds[Len(bounds)] < duration * SampleRate
           /\ SectionsDone(ClusteredSections(bounds), "Succeeded")

\* lines 698-718
SectionsClusterTimeout ==
    /\ pc = "s_cluster"
    /\ SectionsDone(FallbackSections(duration), "TimedOut")

\* lines 738-740
SectionsClusterRaise ==
    /\ pc = "s_cluster"
    /\ SectionsDone(<<>>, "Failed")

(***************************************************************************)
(* The specification.                                                      *)
(***************************************************************************)
\* what the event loop does by itself: start a call, let a wait_for expire
Scheduled ==
    \/ CallTempo \/ CallKeyTuning \/ CallChords \/ CallBeats \/ CallSections
    \/ TempoOnsetTimeout \/ TempoCandidatesTimeout
    \/ ChordsChromaTimeout
    \/ BeatsOnsetTimeout \/ BeatsTrackTimeout
    \/ SectionsClusterTimeout

\* what a primitive does, if it ever does: return or raise
Primitive ==
    \/ LoadReturn \/ LoadRaise
    \/ TempoOnsetReturn \/ TempoOnsetRaise
    \/ TempoCandidatesReturn \/ TempoCandidatesRaise
    \/ KeyChromaReturn \/ KeyChromaRaise
    \/ ChordsChromaReturn \/ ChordsChromaRaise
    \/ BeatsOnsetReturn \/ BeatsOnsetRaise
    \/ BeatsTrackReturn \/ BeatsTrackRaise
    \/ SectionsClusterReturn \/ SectionsClusterRaise

Next == Scheduled \/ Primitive

Spec == Init /\ [][Next]_vars

\* a 30 s or 60 s wait_for that is pending expires; a primitive need not return
FairSpec == Init /\ [][Next]_vars /\ WF_vars(Scheduled)

(***************************************************************************)
(* MusicTheoryAnalyzer: strings.                                           *)
(***************************************************************************)
\* str.split(): the maximal runs of characters other than whitespace
RECURSIVE SplitLoop(_, _, _, _)
SplitLoop(str, i, word, parts) ==
    IF i > Len(str)
    THEN IF word = <<>> THEN parts ELSE Append(parts, word)
    ELSE IF str[i] = " "
         THEN SplitLoop(str, i + 1, <<>>, IF word = <<>> THEN parts ELSE Append(parts, word))
         ELSE SplitLoop(str, i + 1, Append(word, str[i]), parts)

Split(str) == SplitLoop(str, 1, <<>>, <<>>)

UpperLetters == <<"A", "B", "C", "D", "E", "F", "G", "H", "I", "J", "K", "L", "M",
                  "N", "O", "P", "Q", "R", "S", "T", "U", "V", "W", "X", "Y", "Z">>
LowerLetters == <<"a", "b", "c", "d", "e", "f", "g", "h", "i", "j", "k", "l", "m",
                  "n", "o", "p", "q", "r", "s", "t", "u", "v", "w", "x", "y", "z">>

\* str.lower()
Lower(str) ==
    [i \in 1 .. Len(str) |->
        IF \E j \in 1 .. Len(UpperLetters) : UpperLetters[j] = str[i]
        THEN LowerLetters[CHOOSE j \in 1 .. Len(UpperLetters) : UpperLetters[j] = str[i]]
        ELSE str[i]]

\* ' ' in chord_name
HasSpace(str) == \E i \in 1 .. Len(str) : str[i] = " "

\* list.index(x), 0-based; -1 stands for ValueError
IndexOf(list, x) ==
    IF \E i \in 1 .. Len(list) : list[i] = x
    THEN (CHOOSE i \in 1 .. Len(list) : list[i] = x /\ \A j \in 1 .. i - 1 : list[j] # x) - 1
    ELSE -1

\* key = None
NoneValue == <<"None">>
\* the empty dictionary
EmptyDict == <<>>

(***************************************************************************)
(* MusicTheoryAnalyzer.analyze_harmonic_progression, lines 70-131.         *)
(***************************************************************************)
\* lines 267-272
ParseKey(k) ==
    LET parts == Split(k)
    IN  IF Len(parts) >= 2
        THEN [root |-> parts[1], mode |-> Lower(parts[2])]
        ELSE [root |-> <<"C">>, mode |-> MajorChars]

\* lines 286-289 and 297-300: the index of a root, 0 when it is no note name
NoteIndex(root) == IF IndexOf(NOTE_NAMES, root) >= 0 THEN IndexOf(NOTE_NAMES, root) ELSE 0

\* line 295: chord_name.split()[0] if ' ' in chord_name else chord_name
ChordRoot(chord_name) == IF HasSpace(chord_name) THEN Split(chord_name)[1] ELSE chord_name

\* line 295 raises IndexError for a chord name of whitespace only
ChordRootRaises(chord_name) == HasSpace(chord_name) /\ Split(chord_name) = <<>>

\* lines 308-309
RomanMajor(scale_degree) ==
    CASE scale_degree = 0 -> "I"
      [] scale_degree = 2 -> "ii"
      [] scale_degree = 4 -> "iii"
      [] scale_degree = 5 -> "IV"
      [] scale_degree = 7 -> "V"
      [] scale_degree = 9 -> "vi"
      [] scale_degree = 11 -> "vii°"
      [] OTHER -> "I"

\* a minor key read by the major table
RomanMinorAsMajor(scale_degree) == RomanMajor(scale_degree)

\* lines 312-313
RomanMinor(scale_degree) ==
    CASE scale_degree = 0 -> "i"
      [] scale_degree = 2 -> "ii°"
      [] scale_degree = 3 -> "III"
      [] scale_degree = 5 -> "iv"
      [] scale_degree = 7 -> "v"
      [] scale_degree = 8 -> "VI"
      [] scale_degree = 10 -> "VII"
      [] OTHER -> "i"

\* the Roman numeral record with the scale degree left unreduced
RomanOfNoModulo(chord, key_index, key_mode) ==
    LET chord_index == NoteIndex(ChordRoot(chord.chord))
        scale_degree == chord_index - key_index
    IN  [chord |-> chord.chord,
         roman_numeral |-> IF key_mode = MajorChars THEN RomanMajor(scale_degree % 12)
                           ELSE RomanMinor(scale_degree % 12),
         scale_degree |-> scale_degree,
         start_time |-> chord.start_time,
         end_time |-> chord.end_time,
         confidence |-> chord.confidence]

\* lines 291-322: the Roman numeral record of one chord
RomanOf(chord, key_index, key_mode) ==
    LET chord_index == NoteIndex(ChordRoot(chord.chord))
        scale_degree == (chord_index - key_index) % 12
    IN  [chord |-> chord.chord,
         roman_numeral |-> IF key_mode = MajorChars THEN RomanMajor(scale_degree)
                           ELSE RomanMinor(scale_degree),
         scale_degree |-> scale_degree,
         start_time |-> chord.start_time,
         end_time |-> chord.end_time,
         confidence |-> chord.confidence]

\* lines 274-324
ChordsToRomanNumerals(chs, key_root, key_mode) ==
    [i \in 1 .. Len(chs) |-> RomanOf(chs[i], NoteIndex(key_root), key_mode)]

\* a function table that also knows the minor dominant
MajorFunctionWithMinor(roman) ==
    CASE roman = "I" -> "tonic"
      [] roman = "ii" -> "subdominant"
      [] roman = "iii" -> "tonic_substitute"
      [] roman = "IV" -> "subdominant"
      [] roman = "V" -> "dominant"
      [] roman = "v" -> "dominant"
      [] roman = "vi" -> "tonic_substitute"
      [] roman = "vii°" -> "dominant_substitute"
      [] OTHER -> "tonic"

\* lines 57-65 and 340: MAJOR_FUNCTIONS.get(roman, HarmonicFunction.TONIC)
MajorFunction(roman) ==
    CASE roman = "I" -> "tonic"
      [] roman = "ii" -> "subdominant"
      [] roman = "iii" -> "tonic_substitute"
      [] roman = "IV" -> "subdominant"
      [] roman = "V" -> "dominant"
      [] roman = "vi" -> "tonic_substitute"
      [] roman = "vii°" -> "dominant_substitute"
      [] OTHER -> "tonic"

\* lines 326-349
AnalyzeFunctionalHarmony(roman_numerals) ==
    [i \in 1 .. Len(roman_numerals) |->
        [roman_numeral |-> roman_numerals[i].roman_numeral,
         function |-> MajorFunction(roman_numerals[i].roman_numeral),
         start_time |-> roman_numerals[i].start_time,
         end_time |-> roman_numerals[i].end_time]]

\* lines 361-368, in the dictionary's order
common_patterns ==
    << [name |-> "I-V-vi-IV", chords |-> <<"I", "V", "vi", "IV">>],
       [name |-> "I-IV-V", chords |-> <<"I", "IV", "V">>],
       [name |-> "ii-V-I", chords |-> <<"ii", "V", "I">>],
       [name |-> "I-vi-IV-V", chords |-> <<"I", "vi", "IV", "V">>],
       [name |-> "vi-IV-I-V", chords |-> <<"vi", "IV", "I", "V">>],
       [name |-> "I-V-IV", chords |-> <<"I", "V", "IV">>] >>

\* a search that looks at the start of the sequence only
ContainsSubsequenceAtStart(sequence, subsequence) ==
    /\ Len(sequence) >= Len(subsequence)
    /\ SubSeq(sequence, 1, Len(subsequence)) = subsequence

\* lines 377-383
ContainsSubsequence(sequence, subsequence) ==
    \E i \in 0 .. Len(sequence) - Len(subsequence) :
        SubSeq(sequence, i + 1, i + Len(subsequence)) = subsequence

PatternFound(progression) ==
    [i \in 1 .. Len(common_patterns) |->
        ContainsSubsequence(progression, common_patterns[i].chords)]

\* the entries of list whose flag is set, in order
RECURSIVE Filtered(_, _, _)
Filtered(list, flags, i) ==
    IF i > Len(list) THEN <<>>
    ELSE (IF flags[i] THEN <<list[i]>> ELSE <<>>) \o Filtered(list, flags, i + 1)

\* lines 351-375
DetectChordPatterns(roman_numerals) ==
    LET progression == [i \in 1 .. Len(roman_numerals) |-> roman_numerals[i].roman_numeral]
        found == Filtered(common_patterns, PatternFound(progression), 1)
    IN  [i \in 1 .. Len(found) |-> found[i].name]

RECURSIVE SumDurations(_, _)
SumDurations(chs, i) ==
    IF i > Len(chs) THEN 0
    ELSE (chs[i].end_time.n - chs[i].start_time.n) + SumDurations(chs, i + 1)

\* lines 385-412; the times of one chord list share their denominator, and
\* bpmC is in 1/100 bpm: seconds_per_bar = 60 / bpm * 4 = 24000 / bpmC
CalculateHarmonicRhythm(chs, bpmC) ==
    IF Len(chs) < 2
    THEN [avg_duration |-> 0, changes_per_bar |-> 0]
    ELSE LET total == SumDurations(chs, 1)
             den == chs[1].end_time.d
         IN  [avg_chord_duration |-> Frac(total, den * Len(chs)),
              changes_per_bar |-> IF total > 0
                                  THEN Frac(24000 * den * Len(chs), bpmC * total)
                                  ELSE Frac(0, 1),
              total_chord_changes |-> Len(chs)]

\* a half cadence taken as anything that leaves V
CadenceTypeHalfFromV(current, next_chord) ==
    IF current = "V" /\ next_chord = "I" THEN "authentic"
    ELSE IF current = "IV" /\ next_chord = "I" THEN "plagal"
    ELSE IF current = "V" THEN "half"
    ELSE IF current = "V" /\ next_chord = "vi" THEN "deceptive"
    ELSE "none"

\* lines 429-445
CadenceType(current, next_chord) ==
    IF current = "V" /\ next_chord = "I" THEN "authentic"
    ELSE IF current = "IV" /\ next_chord = "I" THEN "plagal"
    ELSE IF next_chord = "V" THEN "half"
    ELSE IF current = "V" /\ next_chord = "vi" THEN "deceptive"
    ELSE "none"

\* lines 457-465, in tenths
CalculateCadenceStrength(cadence_type) ==
    CASE cadence_type = "authentic" -> 10
      [] cadence_type = "plagal" -> 8
      [] cadence_type = "deceptive" -> 6
      [] cadence_type = "half" -> 5
      [] OTHER -> 5

\* lines 425-453: the cadences found from pair i on; the progression
\* string "X-Y" is kept as the pair <<X, Y>>
RECURSIVE CadencesFrom(_, _)
CadencesFrom(roman_numerals, i) ==
    IF i >= Len(roman_numerals) THEN <<>>
    ELSE LET current == roman_numerals[i].roman_numeral
             next_chord == roman_numerals[i + 1].roman_numeral
             cadence_type == CadenceType(current, next_chord)
         IN  (IF cadence_type # "none"
              THEN << [type |-> cadence_type,
                       progression |-> <<current, next_chord>>,
                       time |-> roman_numerals[i + 1].start_time,
                       strength |-> CalculateCadenceStrength(cadence_type)] >>
              ELSE <<>>) \o CadencesFrom(roman_numerals, i + 1)

\* lines 414-455
DetectCadences(roman_numerals) == CadencesFrom(roman_numerals, 1)

\* lines 467-502: every movement is the placeholder 2.0, so the mean is 2.0
AnalyzeVoiceLeading(chs) ==
    IF Len(chs) < 2
    THEN [quality |-> "unknown", avg_movement |-> 0]
    ELSE [quality |-> "good", avg_movement_semitones |-> 2, total_transitions |-> Len(chs) - 1]

\* lines 504-520
DetectModulations(chs) == <<>>

\* the complexity counted against six chords and without its cap at 1.0
CalculateProgressionComplexityOverSix(roman_numerals) ==
    IF Len(roman_numerals) = 0 THEN Frac(0, 1)
    ELSE Frac(Cardinality({roman_numerals[i].roman_numeral : i \in 1 .. Len(roman_numerals)}), 6)

\* lines 522-540: min(unique_chords / 7.0, 1.0), as a fraction
CalculateProgressionComplexity(roman_numerals) ==
    IF Len(roman_numerals) = 0 THEN Frac(0, 1)
    ELSE LET unique_chords ==
                 Cardinality({roman_numerals[i].roman_numeral : i \in 1 .. Len(roman_numerals)})
         IN  IF unique_chords >= 7 THEN Frac(1, 1) ELSE Frac(unique_chords, 7)

\* what makes the try block raise: key.split() of None (line 269), a chord
\* name of whitespace only (line 295), 60.0 / bpm with bpm = 0 (line 405)
HarmonicRaises(chs, k, bpmC) ==
    \/ k = NoneValue
    \/ \E i \in 1 .. Len(chs) : ChordRootRaises(chs[i].chord)
    \/ Len(chs) >= 2 /\ bpmC = 0

\* lines 87-131
HarmonicAnalysis(chs, k, bpmC) ==
    IF Len(chs) = 0 THEN EmptyDict
    ELSE IF HarmonicRaises(chs, k, bpmC) THEN EmptyDict
    ELSE LET parsed == ParseKey(k)
             roman_numerals == ChordsToRomanNumerals(chs, parsed.root, parsed.mode)
         IN  [key |-> k,
              key_root |-> parsed.root,
              key_mode |-> parsed.mode,
              roman_numerals |-> roman_numerals,
              functional_harmony |-> AnalyzeFunctionalHarmony(roman_numerals),
              common_patterns |-> DetectChordPatterns(roman_numerals),
              harmonic_rhythm |-> CalculateHarmonicRhythm(chs, bpmC),
              cadences |-> DetectCadences(roman_numerals),
              voice_leading_quality |-> AnalyzeVoiceLeading(chs),
              modulations |-> DetectModulations(chs),
              progression_complexity |-> CalculateProgressionComplexity(roman_numerals)]

(***************************************************************************)
(* MusicTheoryAnalyzer.analyze_rhythmic_complexity, lines 133-187.  The    *)
(* tempo is in 1/100 bpm, so a beat lasts 6000 / bpm seconds.              *)
(***************************************************************************)
\* the syncopation with the weak beats counted in full
CalculateSyncopationUnweighted(bts, bpmC) ==
    IF Len(bts) = 0 \/ bpmC = 0 THEN Frac(0, 1)
    ELSE LET num(i) == (bts[i].time.n * bpmC) % (24000 * bts[i].time.d)
             den(i) == 6000 * bts[i].time.d
             \* round(beat_position): to the nearest integer, a half to the even one
             rounded(i) ==
                 LET q == num(i) \div den(i)
                     rem == num(i) % den(i)
                 IN  IF 2 * rem < den(i) THEN q
                     ELSE IF 2 * rem > den(i) THEN q + 1
                     ELSE IF q % 2 = 0 THEN q ELSE q + 1
             \* abs(beat_position - round(beat_position)) < 0.1
             close(i) == Abs(num(i) - rounded(i) * den(i)) < 600 * bts[i].time.d
             strong == {i \in 1 .. Len(bts) : close(i) /\ (rounded(i) % 4) \in {0, 2}}
             weak == {i \in 1 .. Len(bts) : close(i) /\ (rounded(i) % 4) \notin {0, 2}}
             off == {i \in 1 .. Len(bts) : ~close(i)}
             \* on_beat and off_beat, doubled
             on_beat2 == 2 * Cardinality(strong) + 2 * Cardinality(weak)
             off_beat2 == 2 * Cardinality(off)
             total2 == on_beat2 + off_beat2
         IN  IF total2 > 0
             THEN (IF off_beat2 > total2 THEN Frac(1, 1) ELSE Frac(off_beat2, total2))
             ELSE Frac(0, 1)

\* lines 542-577: the share of beats that fall off the beat grid.  A beat at
\* t = n / d is at position ((n * bpm) mod (24000 * d)) / (6000 * d) of its bar.
CalculateSyncopation(bts, bpmC) ==
    IF Len(bts) = 0 \/ bpmC = 0 THEN Frac(0, 1)
    ELSE LET num(i) == (bts[i].time.n * bpmC) % (24000 * bts[i].time.d)
             den(i) == 6000 * bts[i].time.d
             \* round(beat_position): to the nearest integer, a half to the even one
             rounded(i) ==
                 LET q == num(i) \div den(i)
                     rem == num(i) % den(i)
                 IN  IF 2 * rem < den(i) THEN q
                     ELSE IF 2 * rem > den(i) THEN q + 1
                     ELSE IF q % 2 = 0 THEN q ELSE q + 1
             \* abs(beat_position - round(beat_position)) < 0.1
             close(i) == Abs(num(i) - rounded(i) * den(i)) < 600 * bts[i].time.d
             strong == {i \in 1 .. Len(bts) : close(i) /\ (rounded(i) % 4) \in {0, 2}}
             weak == {i \in 1 .. Len(bts) : close(i) /\ (rounded(i) % 4) \notin {0, 2}}
             off == {i \in 1 .. Len(bts) : ~close(i)}
             \* on_beat and off_beat, doubled: a weak beat counts 0.5
             on_beat2 == 2 * Cardinality(strong) + Cardinality(weak)
             off_beat2 == 2 * Cardinality(off)
             total2 == on_beat2 + off_beat2
         IN  IF total2 > 0
             THEN (IF off_beat2 > total2 THEN Frac(1, 1) ELSE Frac(off_beat2, total2))
             ELSE Frac(0, 1)

\* lines 618-641 with polyrhythms False (line 593):
\* min(syncopation * 0.4 + min(note_density / 10, 1) * 0.3, 1)
CalculateRhythmicComplexity(syncopation, note_density) ==
    LET normalized_density ==
            IF note_density.n >= 10 * note_density.d THEN Frac(1, 1)
            ELSE Frac(note_density.n, 10 * note_density.d)
        n == 4 * syncopation.n * normalized_density.d + 3 * normalized_density.n * syncopation.d
        d == 10 * syncopation.d * normalized_density.d
    IN  IF n > d THEN Frac(1, 1) ELSE Frac(n, d)

\* lines 150-187
RhythmicAnalysis(bts, bpmC, dur) ==
    IF Len(bts) = 0 THEN EmptyDict
    ELSE LET syncopation == CalculateSyncopation(bts, bpmC)
             note_density == IF dur > 0 THEN Frac(Len(bts), dur) ELSE Frac(0, 1)
         IN  [syncopation_index |-> syncopation,
              time_signature |-> "4/4",
              note_density |-> note_density,
              polyrhythms_detected |-> FALSE,
              metric_hierarchy |-> [time_signature |-> "4/4", beats_per_bar |-> 4,
                                    strong_beats |-> <<1, 3>>, weak_beats |-> <<2, 4>>],
              complexity_score |-> CalculateRhythmicComplexity(syncopation, note_density),
              bpm |-> bpmC,
              total_beats |-> Len(bts)]

(***************************************************************************)
(* MusicTheoryAnalyzer.detect_genre_conventions, lines 189-265.  A score   *)
(* is counted in 1/600: 0.3 is 180, 0.2 is 120, and 0.3 * k / n is whole   *)
(* for the template sizes n = 3, 4, 5.                                     *)
(***************************************************************************)
\* lines 210-246: the score of one genre template and its reasons
GenreScore(conventions, harmonic, rhythmic, instruments) ==
    LET patterns == IF "common_patterns" \in DOMAIN harmonic
                    THEN harmonic.common_patterns ELSE <<>>
        InGenre(pattern) == pattern \in conventions.common_progressions
        used == SelectSeq(patterns, InGenre)
        tempo == IF "bpm" \in DOMAIN rhythmic THEN rhythmic.bpm ELSE 0
        bpm_match == conventions.bpm_range[1] <= tempo /\ tempo <= conventions.bpm_range[2]
        required_instruments == conventions.instrumentation
        detected_instruments == {instruments[i] : i \in 1 .. Len(instruments)}
        matched == Cardinality(required_instruments \cap detected_instruments)
        required == Cardinality(required_instruments)
        complexity == IF "complexity_score" \in DOMAIN rhythmic
                      THEN rhythmic.complexity_score ELSE Frac(0, 1)
        \* abs(complexity - expected_complexity) < 0.2
        complexity_match ==
            Abs(10 * complexity.n - conventions.rhythmic_complexity * complexity.d)
                < 2 * complexity.d
        score == 180 * Len(used)
                 + (IF bpm_match THEN 120 ELSE 0)
                 + (IF required > 0 THEN (180 * matched) \div required ELSE 0)
                 + (IF complexity_match THEN 120 ELSE 0)
    IN  [genre |-> conventions.genre,
         confidence |-> Frac(Min(score, 600), 600),
         reasons |->
             [i \in 1 .. Len(used) |-> <<"Uses", used[i], "progression">>]
             \o (IF bpm_match THEN << <<"BPM", tempo, "matches genre range">> >> ELSE <<>>)
             \o (IF required > 0 /\ 2 * matched > required
                 THEN << <<"Instrumentation matches", (100 * matched) \div required>> >>
                 ELSE <<>>)
             \o (IF complexity_match THEN << <<"Rhythmic complexity matches">> >> ELSE <<>>)]

\* the ranking that puts the last of the genres of equal confidence first
RECURSIVE SortedGenresLastFirst(_)
SortedGenresLastFirst(scores) ==
    IF Len(scores) = 0 THEN <<>>
    ELSE LET best == CHOOSE i \in 1 .. Len(scores) :
                         /\ \A j \in 1 .. Len(scores) :
                                scores[j].confidence.n <= scores[i].confidence.n
                         /\ \A j \in i + 1 .. Len(scores) :
                                scores[j].confidence.n < scores[i].confidence.n
         IN  <<scores[best]>>
             \o SortedGenresLastFirst(SubSeq(scores, 1, best - 1)
                                      \o SubSeq(scores, best + 1, Len(scores)))

\* lines 249-253: sorted(..., reverse=True) is stable, equal confidences keep
\* the dictionary's order
RECURSIVE SortedGenres(_)
SortedGenres(scores) ==
    IF Len(scores) = 0 THEN <<>>
    ELSE LET best == CHOOSE i \in 1 .. Len(scores) :
                         /\ \A j \in 1 .. Len(scores) :
                                scores[j].confidence.n <= scores[i].confidence.n
                         /\ \A j \in 1 .. i - 1 :
                                scores[j].confidence.n < scores[i].confidence.n
         IN  <<scores[best]>>
             \o SortedGenres(SubSeq(scores, 1, best - 1) \o SubSeq(scores, best + 1, Len(scores)))

\* a result that leaves the first of the ranking out of its list
GenreAnalysisSkipsFirst(harmonic, rhythmic, instruments, templates) ==
    LET genre_scores == [i \in 1 .. Len(templates) |->
                            GenreScore(templates[i], harmonic, rhythmic, instruments)]
        sorted_genres == SortedGenres(genre_scores)
    IN  [predicted_genres |-> SubSeq(sorted_genres, 2, Len(sorted_genres)),
         primary_genre |-> IF Len(sorted_genres) > 0 THEN sorted_genres[1].genre
                           ELSE "unknown"]

\* lines 206-261
GenreAnalysis(harmonic, rhythmic, instruments, templates) ==
    LET genre_scores == [i \in 1 .. Len(templates) |->
                            GenreScore(templates[i], harmonic, rhythmic, instruments)]
        sorted_genres == SortedGenres(genre_scores)
    IN  [predicted_genres |-> SubSeq(sorted_genres, 1, Min(5, Len(sorted_genres))),
         primary_genre |-> IF Len(sorted_genres) > 0 THEN sorted_genres[1].genre
                           ELSE "unknown"]

(***************************************************************************)
(* The analyzer called on chord lists, keys and tempi.  The arguments are  *)
(* held in chords, key and bpm.                                            *)
(***************************************************************************)
\* longest chord list enumerated over all the chord names
MaxTheoryChords == 2
\* longest chord list enumerated over the roots C, D, F, G and A
MaxPatternChords == 4

AMinorName == <<"A", " ", "m", "i", "n", "o", "r">>
\* a chord name of one space, whose split() is empty
BlankName == <<" ">>
TheoryChordNames ==
    {NOTE_NAMES[i] : i \in 1 .. 12} \cup {<<"A", "m">>, AMinorName, <<"H">>, BlankName}

\* the chords of 0.5 s each that carry these names, as _extract_chords shapes them
ChordsNamed(names) ==
    [i \in 1 .. Len(names) |->
        [chord |-> names[i],
         start_time |-> Frac(5 * (i - 1), 10),
         end_time |-> Frac(5 * i, 10),
         confidence |-> 7]]

\* C, G, Am, F twice, and the same with the root name A for Am
ScenarioA == << <<"C">>, <<"G">>, <<"A", "m">>, <<"F">>,
                <<"C">>, <<"G">>, <<"A", "m">>, <<"F">> >>
ScenarioARoots == << <<"C">>, <<"G">>, <<"A">>, <<"F">>,
                     <<"C">>, <<"G">>, <<"A">>, <<"F">> >>

CMajor == FormatKey(1, "major")

WellFormedKeys == {FormatKey(r, m) : r \in 1 .. 12, m \in {"major", "minor"}}
OtherKeys ==
    {<<>>, <<"C">>, <<"H", " ">> \o MajorChars, <<"A", " ", "M", "a", "j", "o", "r">>,
     <<"D", " ", "d", "o", "r", "i", "a", "n">>, <<"E", " ", " ">> \o MinorChars}
FewKeys == {CMajor, FormatKey(10, "minor"), FormatKey(7, "major"), NoneValue} \cup OtherKeys

\* the (chord names, key) pairs the analyzer is called with
TheoryInputs ==
    (SeqsUpTo(TheoryChordNames, 1) \X (WellFormedKeys \cup OtherKeys))
        \cup (SeqsUpTo(TheoryChordNames, MaxTheoryChords) \X FewKeys)
        \cup ({ScenarioA, ScenarioARoots} \X FewKeys)
        \cup (SeqsUpTo({<<"C">>, <<"D">>, <<"F">>, <<"G">>, <<"A">>}, MaxPatternChords)
                 \X {CMajor, FormatKey(10, "minor")})

\* chord lists, beat lists and analyses a call of the analyzer is given: one
\* record per call, the arguments a method does not take left empty
NoCall ==
    [entry |-> "none", chords |-> <<>>, key |-> <<>>, bpm |-> 0, beats |-> <<>>,
     duration |-> 0, harmonic_analysis |-> <<>>, rhythmic_analysis |-> <<>>,
     instrumentation |-> <<>>]

\* all twelve roots in a row: every numeral of the key's table
AllRoots == [i \in 1 .. 12 |-> NOTE_NAMES[i]]

HarmonicCalls ==
    {[NoCall EXCEPT !.entry = "analyze_harmonic_progression",
                    !.chords = ChordsNamed(in[1]), !.key = in[2], !.bpm = b] :
        in \in TheoryInputs \cup ({AllRoots} \X FewKeys), b \in {9200, 12000}}

\* beats as _extract_beats makes them: none, a synthetic grid, tracked frames
RhythmicCalls ==
    {[NoCall EXCEPT !.entry = "analyze_rhythmic_complexity",
                    !.beats = bts, !.bpm = b, !.duration = d] :
        bts \in {<<>>} \cup {SyntheticBeats(t, n, 5) : t \in {9200, 12000}, n \in 1 .. MaxDuration}
                       \cup {TrackedBeats(f) : f \in BeatFrameLists},
        b \in {0, 9200, 12000, 18000},
        d \in 0 .. MaxDuration}

PopInstruments == <<"drums", "bass", "guitar", "vocals", "synth">>

GenreCalls ==
    {[NoCall EXCEPT !.entry = "detect_genre_conventions",
                    !.harmonic_analysis = h, !.rhythmic_analysis = r,
                    !.instrumentation = ins] :
        h \in {EmptyDict,
               [common_patterns |-> <<>>],
               [common_patterns |-> <<"I-V-vi-IV">>],
               [common_patterns |-> <<"vi-IV-I-V", "I-V-vi-IV">>],
               [common_patterns |-> <<"ii-V-I">>],
               HarmonicAnalysis(ChordsNamed(ScenarioARoots), CMajor, 12000)},
        r \in {EmptyDict}
              \cup [bpm : {0, 5999, 9200, 10000, 12200, 13000, 13001, 16000},
                    complexity_score : {Frac(0, 1), Frac(1, 10), Frac(3, 10),
                                        Frac(49, 100), Frac(1, 2), Frac(1, 1)}]
              \cup {RhythmicAnalysis(TrackedBeats(<<0, 43, 86>>), 9200, 3)},
        ins \in {<<>>, PopInstruments, <<"drums", "bass">>, <<"piano", "piano">>,
                 <<"vocals", "guitar", "bass", "drums">>}}

\* the arguments of the next call
Given(call) ==
    /\ entry = call.entry
    /\ chords = call.chords
    /\ key = call.key
    /\ bpm = call.bpm
    /\ beats = call.beats
    /\ duration = call.duration
    /\ harmonic_analysis = call.harmonic_analysis
    /\ rhythmic_analysis = call.rhythmic_analysis
    /\ instrumentation = call.instrumentation

\* the arguments as the method leaves them
Arguments ==
    [entry |-> entry, chords |-> chords, key |-> key, bpm |-> bpm, beats |-> beats,
     duration |-> duration, harmonic_analysis |-> harmonic_analysis,
     rhythmic_analysis |-> rhythmic_analysis, instrumentation |-> instrumentation]

\* a new analyzer (lines 67-68) about to be called
InitAnalyzer(calls) ==
    /\ \E call \in calls : Given(call)
    /\ genre_patterns = GenrePatterns
    /\ history = <<>>
    /\ pc = "start"
    /\ stack = <<>>
    /\ cands = <<>>
    /\ tuning = 0
    /\ corrected_bpm = 0
    /\ ret = NoReturn
    /\ status = [f \in Features |-> "Pending"]
    /\ tempoTrace = NoTempoTrace
    /\ beatsPath = "none"
    /\ beat_frames = <<>>
    /\ ExecutorIdle

InitTheory == InitAnalyzer(HarmonicCalls \cup RhythmicCalls \cup GenreCalls)

\* a method of the analyzer returns result: nothing it was given and nothing
\* of the analyzer is assigned
Returns(method, result) ==
    /\ entry = method
    /\ pc = "start"
    /\ pc' = "done"
    /\ ret' = [kind |-> "dict", value |-> result]
    /\ UNCHANGED <<signal, beat_frames, harmonic_analysis, rhythmic_analysis, instrumentation,
                   genre_patterns, executor, stack, bpm, key, tuning, chords, beats,
                   corrected_bpm, status, tempoTrace, beatsPath>>
    /\ history' = Append(history, [call |-> Arguments, after |-> Arguments',
                                   result |-> result])

\* lines 70-131
AnalyzeHarmonicProgression ==
    Returns("analyze_harmonic_progression", HarmonicAnalysis(chords, key, bpm))

\* a rhythmic analysis that takes the last beat off the list it was given
AnalyzeRhythmicComplexityConsumes ==
    /\ entry = "analyze_rhythmic_complexity"
    /\ pc = "start"
    /\ pc' = "done"
    /\ ret' = [kind |-> "dict", value |-> RhythmicAnalysis(beats, bpm, duration)]
    /\ beats' = SubSeq(beats, 1, Len(beats) - 1)
    /\ UNCHANGED <<signal, beat_frames, harmonic_analysis, rhythmic_analysis, instrumentation,
                   genre_patterns, executor, stack, bpm, key, tuning, chords,
                   corrected_bpm, status, tempoTrace, beatsPath>>
    /\ history' = Append(history, [call |-> Arguments, after |-> Arguments',
                                   result |-> RhythmicAnalysis(beats, bpm, duration)])

\* lines 133-187
AnalyzeRhythmicComplexity ==
    Returns("analyze_rhythmic_complexity", RhythmicAnalysis(beats, bpm, duration))

\* lines 189-265
DetectGenreConventions ==
    Returns("detect_genre_conventions",
            GenreAnalysis(harmonic_analysis, rhythmic_analysis, instrumentation,
                          genre_patterns))

TheoryNext ==
    \/ AnalyzeHarmonicProgression
    \/ AnalyzeRhythmicComplexity
    \/ DetectGenreConventions

TheorySpec == InitTheory /\ [][TheoryNext]_vars

(***************************************************************************)
(* One analyzer called several times in a row, as the service's            *)
(* theory_analyzer (analysis_service.py line 47) is over its life.         *)
(***************************************************************************)
\* most calls made on one analyzer
MaxCalls == 3

SessionCalls ==
    {call \in HarmonicCalls :
        /\ call.chords \in {ChordsNamed(ScenarioARoots), ChordsNamed(<< <<"C">> >>)}
        /\ call.key \in {CMajor, FormatKey(10, "minor")}
        /\ call.bpm = 12000}
    \cup {call \in RhythmicCalls :
            /\ call.beats \in {SyntheticBeats(12000, 2, 5), TrackedBeats(<<0, 43>>)}
            /\ call.bpm \in {9200, 12000}
            /\ call.duration = 2}
    \cup {call \in GenreCalls :
            /\ call.harmonic_analysis = [common_patterns |-> <<"I-V-vi-IV">>]
            /\ call.rhythmic_analysis = [bpm |-> 12200, complexity_score |-> Frac(3, 10)]
            /\ call.instrumentation \in {<<>>, PopInstruments}}

\* the caller calls the analyzer again, with arguments of its choice
NextCall ==
    /\ pc = "done"
    /\ Len(history) < MaxCalls
    /\ \E call \in SessionCalls :
           /\ entry' = call.entry
           /\ chords' = call.chords
           /\ key' = call.key
           /\ bpm' = call.bpm
           /\ beats' = call.beats
           /\ duration' = call.duration
           /\ harmonic_analysis' = call.harmonic_analysis
           /\ rhythmic_analysis' = call.rhythmic_analysis
           /\ instrumentation' = call.instrumentation
    /\ pc' = "start"
    /\ ret' = NoReturn
    /\ UNCHANGED <<cands, genre_patterns, history, executor, beat_frames, stack, tuning,
                   corrected_bpm, status, tempoTrace, beatsPath>>

SessionNext ==
    \/ AnalyzeHarmonicProgression
    \/ AnalyzeRhythmicComplexity
    \/ DetectGenreConventions
    \/ NextCall

SessionSpec == InitAnalyzer(SessionCalls) /\ [][SessionNext]_vars

(***************************************************************************)
(* Two analyze_music calls on one event loop.  Every wait_for wraps        *)
(* loop.run_in_executor(None, ...) (lines 412, 432, 567, 602, 751): the    *)
(* primitives of all the analyses run on the threads of the loop's one     *)
(* default executor.  A wait_for that expires cancels the awaiting side    *)
(* only: a primitive that is already running keeps its thread.  The        *)
(* executor has min(32, cpu count + 4) threads: 5 on one processor.        *)
(* A signal is what each primitive does on it: return in time, or hang.    *)
(***************************************************************************)
Signals ==
    LET ops == {"t_onset", "t_cands", "c_chroma", "bt_onset", "bt_cands", "b_onset", "b_track"}
    IN  {[op \in ops |-> "returns"],
         [op \in ops |-> "hangs"],
         [op \in ops |-> IF op = "t_onset" THEN "hangs" ELSE "returns"],
         [op \in ops |-> IF op \in {"t_onset", "c_chroma"} THEN "hangs" ELSE "returns"]}

\* the variables of the single analysis, which the concurrent ones leave alone
service ==
    <<entry, duration, cands, pc, stack, bpm, key, tuning, chords, beats,
      corrected_bpm, ret, status, tempoTrace, beatsPath, beat_frames>>

\* lines 213-226, 404-486, 555-672: where an analysis goes when the primitive
\* it awaits ends with outcome: its next await, the extractions this finishes
\* and the ones it starts
NextStage(op, outcome) ==
    CASE op = "t_onset" /\ outcome = "Succeeded" ->
             [pc |-> "t_cands", finished |-> {}, started |-> {}]
      [] op \in {"t_onset", "t_cands"} ->
             [pc |-> "k_chroma", finished |-> {"tempo"}, started |-> {"key"}]
      [] op = "k_chroma" ->
             [pc |-> "c_chroma", finished |-> {"key"}, started |-> {"chords"}]
      [] op = "c_chroma" ->
             [pc |-> "bt_onset", finished |-> {"chords"}, started |-> {"beats", "beats_tempo"}]
      [] op = "bt_onset" /\ outcome = "Succeeded" ->
             [pc |-> "bt_cands", finished |-> {}, started |-> {}]
      [] op \in {"bt_onset", "bt_cands"} ->
             [pc |-> "b_onset", finished |-> {"beats_tempo"}, started |-> {}]
      [] op = "b_onset" /\ outcome = "Succeeded" ->
             [pc |-> "b_track", finished |-> {}, started |-> {}]
      [] OTHER ->
             [pc |-> "done", finished |-> {"beats"}, started |-> {}]

\* analysis i after the primitive it awaited ended with outcome
Resumed(i, outcome) ==
    LET stage == NextStage(instances[i].pc, outcome)
    IN  [instances[i] EXCEPT
            !.pc = stage.pc,
            !.task = "idle",
            !.status = [f \in Features |->
                           IF f \in stage.finished THEN outcome
                           ELSE IF f \in stage.started THEN "Running"
                           ELSE instances[i].status[f]]]

\* lines 204-214 of both analyses: the signals are loaded, tempo extraction begins
InitConcurrent ==
    /\ instances \in [1 .. 2 ->
           [signal : Signals, pc : {"t_onset"}, task : {"idle"},
            status : {[f \in Features |-> IF f = "tempo" THEN "Running" ELSE "Pending"]}]]
    /\ pool \in [max_workers : {5, 6}, running : {{}}, queue : {<<>>}]
    /\ entry = "analyze_music"
    /\ duration = 0
    /\ cands = <<>>
    /\ pc = "start"
    /\ stack = <<>>
    /\ bpm = 0
    /\ key = <<>>
    /\ tuning = 0
    /\ chords = <<>>
    /\ beats = <<>>
    /\ corrected_bpm = 0
    /\ ret = NoReturn
    /\ status = [f \in Features |-> "Pending"]
    /\ tempoTrace = NoTempoTrace
    /\ beatsPath = "none"
    /\ beat_frames = <<>>
    /\ AnalyzerIdle

\* loop.run_in_executor(None, primitive): a free thread takes the work item,
\* or it waits in the executor's queue
Submit(i) ==
    /\ instances[i].task = "idle"
    /\ instances[i].pc \notin {"k_chroma", "done"}
    /\ LET item == [inst |-> i, op |-> instances[i].pc]
       IN  IF Cardinality(pool.running) < pool.max_workers
           THEN /\ pool' = [pool EXCEPT !.running = @ \cup {item}]
                /\ instances' = [instances EXCEPT ![i].task = "running"]
           ELSE /\ pool' = [pool EXCEPT !.queue = Append(@, item)]
                /\ instances' = [instances EXCEPT ![i].task = "queued"]
    /\ UNCHANGED <<service, analyzer>>

\* lines 492-549: chroma_cqt is called on the event loop itself, no thread
KeyInline(i) ==
    /\ instances[i].pc = "k_chroma"
    /\ instances' = [instances EXCEPT ![i] = Resumed(i, "Succeeded")]
    /\ UNCHANGED <<service, analyzer, pool>>

\* the primitive returns in time; its thread takes the next queued work item
PrimitiveReturns(i) ==
    /\ instances[i].task = "running"
    /\ instances[i].signal[instances[i].pc] = "returns"
    /\ LET item == [inst |-> i, op |-> instances[i].pc]
       IN  IF Len(pool.queue) > 0
           THEN /\ pool' = [pool EXCEPT !.running = (@ \ {item}) \cup {Head(pool.queue)},
                                        !.queue = Tail(@)]
                /\ instances' = [instances EXCEPT
                                    ![i] = Resumed(i, "Succeeded"),
                                    ![Head(pool.queue).inst].task = "running"]
           ELSE /\ pool' = [pool EXCEPT !.running = @ \ {item}]
                /\ instances' = [instances EXCEPT ![i] = Resumed(i, "Succeeded")]
    /\ UNCHANGED <<service, analyzer>>

\* asyncio.TimeoutError: the primitive hangs on its thread and keeps it, or
\* its work item is still queued behind threads that all hang and is dropped
WaitTimesOut(i) ==
    /\ \/ /\ instances[i].task = "running"
          /\ instances[i].signal[instances[i].pc] = "hangs"
          /\ UNCHANGED pool
       \/ /\ instances[i].task = "queued"
          /\ \A item \in pool.running : instances[item.inst].signal[item.op] = "hangs"
          /\ pool' = [pool EXCEPT !.queue = SelectSeq(@, LAMBDA item : item.inst # i)]
    /\ instances' = [instances EXCEPT ![i] = Resumed(i, "TimedOut")]
    /\ UNCHANGED <<service, analyzer>>

ConcurrentNext ==
    \E i \in 1 .. 2 :
        \/ Submit(i)
        \/ KeyInline(i)
        \/ PrimitiveReturns(i)
        \/ WaitTimesOut(i)

ConcurrentSpec == InitConcurrent /\ [][ConcurrentNext]_vars

(***************************************************************************)
(* Properties.                                                             *)
(***************************************************************************)
Finished(f) == status[f] \in {"Succeeded", "TimedOut", "Failed"}

\* C1: whatever way _extract_tempo ends (candidates, either timeout, any
\* exception), the bpm it returns lies in [60, 180].
C1_TempoInRange ==
    /\ tempoTrace.path # "none" => (6000 <= tempoTrace.bpm /\ tempoTrace.bpm <= 18000)
    /\ (pc = "done" /\ ret.kind = "float") => (6000 <= ret.value /\ ret.value <= 18000)
    /\ Finished("tempo") /\ entry = "analyze_music" => (6000 <= bpm /\ bpm <= 18000)
    /\ Finished("beats_tempo") => (6000 <= corrected_bpm /\ corrected_bpm <= 18000)

\* a tempo far above the range was selected and the final check reset it to 120
C1_Witness ==
    /\ entry = "_extract_tempo"
    /\ pc = "done"
    /\ tempoTrace.path = "ok"
    /\ tempoTrace.corrected > 180000
    /\ ret.value = 12000

AnalysisResultFields ==
    {"bpm", "key", "tuning_frequency", "duration_seconds", "beats", "sections",
     "chords", "harmonic_analysis", "rhythmic_analysis", "genre_analysis"}

\* C2: once the signal is loaded analyze_music never raises, whatever the
\* tempo, key, chord and beat extractions do, it can always go on, and what
\* it returns holds every field; it raises only when the load fails.
C2_AlwaysCompleteResult ==
    entry = "analyze_music" =>
        /\ pc = "raised" => \A f \in Features : status[f] = "Pending"
        /\ pc = "done" =>
              /\ ret.kind = "dict"
              /\ AnalysisResultFields \subseteq DOMAIN ret.value
              /\ \A f \in {"tempo", "key", "chords", "beats"} : Finished(f)
        /\ pc \notin {"done", "raised"} => ENABLED Next

\* a result returned although one extraction timed out and two raised
C2_Witness ==
    /\ entry = "analyze_music"
    /\ pc = "done"
    /\ status["tempo"] = "TimedOut"
    /\ status["key"] = "Failed"
    /\ status["chords"] = "TimedOut"
    /\ status["beats"] = "Failed"
    /\ AnalysisResultFields \subseteq DOMAIN ret.value

\* C3: every extraction is time bounded: a call that was started ends, even
\* when the primitive it awaits never returns.
C3_EveryExtractionEnds == (pc # "start") ~> (pc \in {"done", "raised"})

\* the beats of a finished _extract_beats call
ReturnedBeats == IF entry = "analyze_music" THEN beats ELSE ret.value

\* C4: in a result of analyze_music whose beats are synthetic, consecutive
\* beats are exactly 60 / bpm apart, bpm being the result's bpm; after a beat
\* tracking timeout they have confidence 0.5 and start at t = 0.
C4_SyntheticSpacingIsResultBpm ==
    (entry = "analyze_music" /\ pc = "done"
        /\ beatsPath \in {"onset_timeout", "track_timeout", "sanity"}) =>
        LET b == ret.value.beats
        IN  /\ \A i \in 1 .. Len(b) - 1 :
                  /\ b[i + 1].time.d = b[i].time.d
                  /\ (b[i + 1].time.n - b[i].time.n) * ret.value.bpm = 6000 * b[i].time.d
            /\ beatsPath = "track_timeout" =>
                  /\ \A i \in 1 .. Len(b) : b[i].confidence = 5
                  /\ Len(b) > 0 => b[1].time.n = 0

\* C5: in every list _extract_beats returns, times are non-decreasing and
\* not negative and positions are 1, 2, ..., n in list order.
C5_BeatsOrdered ==
    Finished("beats") =>
        LET b == ReturnedBeats
        IN  /\ \A i \in 1 .. Len(b) : b[i].position = i /\ b[i].time.n >= 0 /\ b[i].time.d > 0
            /\ \A i \in 1 .. Len(b) - 1 : FracLe(b[i].time, b[i + 1].time)

\* tracked beats that passed the sanity check, two of them at the same frame
C5_Witness ==
    /\ entry = "_extract_beats"
    /\ pc = "done"
    /\ beatsPath = "tracked"
    /\ Len(ret.value) = 3
    /\ ret.value[2].time = ret.value[3].time
    /\ ret.value[3].position = 3

\* C6: after a clustering timeout on a signal of D > 0 seconds the sections
\* are k equal ones of D / k seconds and confidence 0.5, from 0 to D without
\* gap or overlap, labelled with the first k labels; k = 6 and 30 s for D = 180.
C6_FallbackSections ==
    (entry = "_extract_sections" /\ pc = "done" /\ status["sections"] = "TimedOut"
        /\ duration > 0) =>
        LET sec == ret.value
            k == Len(sec)
        IN  /\ k = (IF duration < 90 THEN 3 ELSE IF duration >= 180 THEN 6
                    ELSE duration \div 30)
            /\ \A i \in 1 .. k :
                  /\ sec[i].confidence = 5
                  /\ sec[i].start_time.d = sec[i].end_time.d
                  /\ (sec[i].end_time.n - sec[i].start_time.n) * k
                        = duration * sec[i].end_time.d
                  /\ sec[i].label = section_labels[i]
            /\ sec[1].start_time.n = 0
            /\ FracEq(sec[k].end_time, Frac(duration, 1))
            /\ \A i \in 1 .. k - 1 : FracEq(sec[i + 1].start_time, sec[i].end_time)
            /\ duration = 180 =>
                  /\ k = 6
                  /\ \A i \in 1 .. k :
                        sec[i].end_time.n - sec[i].start_time.n = 30 * sec[i].end_time.d

\* the 180 s signal: six fallback sections, the last one ending at 180 s
C6_Witness ==
    /\ entry = "_extract_sections"
    /\ pc = "done"
    /\ status["sections"] = "TimedOut"
    /\ duration = 180
    /\ Len(ret.value) = 6
    /\ FracEq(ret.value[6].end_time, Frac(180, 1))
    /\ ret.value[6].label = "bridge"

\* C7: every list _extract_chords returns has at most 50 chords, each with
\* end_time > start_time and confidence 0.7, and is empty after a timeout or
\* an exception of the chroma computation.
C7_ChordsBounded ==
    Finished("chords") =>
        LET c == IF entry = "analyze_music" THEN chords ELSE ret.value
        IN  /\ Len(c) <= 50
            /\ \A i \in 1 .. Len(c) :
                  /\ FracLt(c[i].start_time, c[i].end_time)
                  /\ c[i].confidence = 7
            /\ status["chords"] \in {"TimedOut", "Failed"} => c = <<>>

\* a chroma matrix of more than 50 windows gave exactly 50 chords
C7_Witness ==
    /\ entry = "_extract_chords"
    /\ pc = "done"
    /\ status["chords"] = "Succeeded"
    /\ Len(ret.value) = 50
    /\ ret.value[50].chord = <<"C", "#">>

\* C10: the octave correction.  A selected tempo above 160 becomes its half
\* when the half is in [60, 140], else its quarter when the quarter is in
\* [60, 140], else stays; one of at most 160 stays; a lone candidate of 184
\* gives 92.0.
C10_OctaveCorrection ==
    tempoTrace.path = "ok" =>
        LET s == tempoTrace.selected
            c == tempoTrace.corrected
        IN  /\ s <= 160000 => c = s
            /\ (s > 160000 /\ s <= 280000) => 2 * c = s
            /\ (s > 280000 /\ s <= 560000) => 4 * c = s
            /\ s > 560000 => c = s
            /\ cands = <<184000>> => tempoTrace.bpm = 9200

\* the lone candidate 184 was halved to 92.0
C10_Witness ==
    /\ entry = "_extract_tempo"
    /\ pc = "done"
    /\ cands = <<184000>>
    /\ tempoTrace.path = "ok"
    /\ tempoTrace.selected = 184000
    /\ ret.value = 9200

\* C8: the roman_numerals of analyze_harmonic_progression hold one entry per
\* chord given, in the chords' order, with the chord's start_time and
\* end_time and a scale_degree in 0 .. 11.  They are output for every
\* non-empty list of chords with non-blank names and every key string; the
\* other calls return the empty analysis, which has no roman_numerals.
C8_RomanNumeralsOneToOne ==
    (entry = "analyze_harmonic_progression" /\ pc = "done") =>
        /\ IF Len(chords) > 0 /\ key # NoneValue
                /\ \A i \in 1 .. Len(chords) : chords[i].chord # BlankName
            THEN "roman_numerals" \in DOMAIN ret.value
            ELSE ret.value = EmptyDict
        /\ "roman_numerals" \in DOMAIN ret.value =>
              LET rn == ret.value.roman_numerals
              IN  /\ Len(rn) = Len(chords)
                  /\ \A i \in 1 .. Len(rn) :
                        /\ rn[i].chord = chords[i].chord
                        /\ rn[i].start_time = chords[i].start_time
                        /\ rn[i].end_time = chords[i].end_time
                        /\ rn[i].scale_degree \in 0 .. 11

\* two chords analysed in A minor: C is III at degree 3, then D# at degree 6
C8_Witness ==
    /\ entry = "analyze_harmonic_progression"
    /\ pc = "done"
    /\ key = FormatKey(10, "minor")
    /\ Len(chords) = 2
    /\ "roman_numerals" \in DOMAIN ret.value
    /\ Len(ret.value.roman_numerals) = 2
    /\ ret.value.roman_numerals[1].scale_degree = 3
    /\ ret.value.roman_numerals[1].roman_numeral = "III"
    /\ ret.value.roman_numerals[2].scale_degree = 6
    /\ ret.value.roman_numerals[2].start_time = Frac(5, 10)

\* C9: C, G, Am, F twice in "C major" gives I, V, vi, IV, I, V, vi, IV and
\* the pattern "I-V-vi-IV" among common_patterns.
C9_ScenarioA ==
    (entry = "analyze_harmonic_progression" /\ pc = "done"
        /\ chords = ChordsNamed(ScenarioA) /\ key = CMajor) =>
        /\ "roman_numerals" \in DOMAIN ret.value
        /\ [i \in 1 .. Len(ret.value.roman_numerals) |->
               ret.value.roman_numerals[i].roman_numeral]
              = <<"I", "V", "vi", "IV", "I", "V", "vi", "IV">>
        /\ \E i \in 1 .. Len(ret.value.common_patterns) :
               ret.value.common_patterns[i] = "I-V-vi-IV"

\* C20: with a non-empty candidate list the selected tempo is the first
\* candidate, in list order, that lies in [80, 140] when there is one, and the
\* first candidate of the list otherwise; lists of one candidate included.
C20_TempoSelection ==
    (tempoTrace.path = "ok" /\ Len(cands) > 0) =>
        LET inRange == {i \in 1 .. Len(cands) : 80000 <= cands[i] /\ cands[i] <= 140000}
            first == CHOOSE i \in inRange : \A j \in inRange : i <= j
        IN  tempoTrace.selected = (IF inRange # {} THEN cands[first] ELSE cands[1])

\* of 184 and 92 the second candidate was selected, being the one in range
C20_Witness ==
    /\ entry = "_extract_tempo"
    /\ pc = "done"
    /\ cands = <<184000, 92000>>
    /\ tempoTrace.path = "ok"
    /\ tempoTrace.selected = 92000
    /\ ret.value = 9200

\* C18: the number of segments is clamp(round(duration / 30), 3, 6), so the
\* fallback of a 170 s signal has 6 sections and that of a 105 s signal 4.
C18_SegmentCountRounds ==
    (entry = "_extract_sections" /\ pc = "done" /\ status["sections"] = "TimedOut") =>
        LET q == duration \div 30
            r == duration % 30
            \* round(duration / 30): to the nearest integer, a half to the even one
            rounded == IF r < 15 THEN q
                       ELSE IF r > 15 THEN q + 1
                       ELSE IF q % 2 = 0 THEN q ELSE q + 1
        IN  Len(ret.value) = Min(6, Max(3, rounded))

\* C19: the sections built from the clustering's boundaries are
\* len(boundaries) - 1 contiguous sections that cover [0, duration]: the
\* first starts at 0 and the last ends at the duration of the signal.
C19_ClusteredSectionsCover ==
    (entry = "_extract_sections" /\ pc = "done" /\ status["sections"] = "Succeeded") =>
        LET sec == ret.value
            n == Len(sec)
        IN  /\ n = SectionCount(duration) - 1
            /\ \A i \in 1 .. n : FracLt(sec[i].start_time, sec[i].end_time)
            /\ \A i \in 1 .. n - 1 : FracEq(sec[i + 1].start_time, sec[i].end_time)
            /\ n > 0 => /\ sec[1].start_time.n = 0
                        /\ FracEq(sec[n].end_time, Frac(duration, 1))

\* C17: a beat or a section has confidence 0.8 exactly when it comes from
\* the primitive's output, 0.5 when a timeout synthesized it and 0.6 when
\* the beat sanity check did; confidences are in [0, 1] and entries and
\* results have no error field.
C17_ConfidenceTellsDegradation ==
    /\ Finished("beats") =>
          \A i \in 1 .. Len(ReturnedBeats) :
              LET b == ReturnedBeats[i]
              IN  /\ DOMAIN b = {"time", "confidence", "position"}
                  /\ b.confidence \in 0 .. 10
                  /\ b.confidence = 8 <=> beatsPath = "tracked"
                  /\ b.confidence = 5 <=> beatsPath \in {"onset_timeout", "track_timeout"}
                  /\ b.confidence = 6 <=> beatsPath = "sanity"
    /\ Finished("sections") =>
          \A i \in 1 .. Len(ret.value) :
              LET sec == ret.value[i]
              IN  /\ DOMAIN sec = {"label", "start_time", "end_time", "confidence"}
                  /\ sec.confidence \in 0 .. 10
                  /\ sec.confidence = 8 <=> status["sections"] = "Succeeded"
                  /\ sec.confidence = 5 <=> status["sections"] = "TimedOut"
    /\ (entry = "analyze_music" /\ pc = "done") => "error" \notin DOMAIN ret.value

\* beat tracking returned, the count was off and the grid has confidence 0.6
C17_Witness ==
    /\ entry = "analyze_music"
    /\ pc = "done"
    /\ status["beats"] = "Succeeded"
    /\ beatsPath = "sanity"
    /\ Len(ret.value.beats) > 1
    /\ ret.value.beats[2].confidence = 6

\* C16: each extraction goes Pending -> Running -> Succeeded, TimedOut or
\* Failed and no further; a timeout hands back the fallback (tempo 120, a
\* synthetic beat grid, time-based sections, no chords) and an exception the
\* default (tempo 120, key "C major" at 440.0, no beats, no sections, no
\* chords); once an extraction of analyze_music has timed out or failed the
\* next one has been started.
C16_OutcomeDeterminesValue ==
    /\ [][\A f \in Features :
            status'[f] # status[f] =>
                \/ status[f] = "Pending" /\ status'[f] = "Running"
                \/ status[f] = "Running" /\ status'[f] \in {"Succeeded", "TimedOut", "Failed"}]_vars
    /\ [](LET alone == entry # "analyze_music"
              ValueOfTempo == IF alone THEN ret.value ELSE bpm
              ValueOfKey == IF alone THEN ret.value ELSE <<key, tuning>>
              ValueOfChords == IF alone THEN ret.value ELSE chords
              \* beats 60 / tempo apart from t = 0 up to the duration
              IsBeatGrid(b, tempo) ==
                  /\ duration > 0 => Len(b) > 0
                  /\ \A i \in 1 .. Len(b) :
                        /\ b[i].time.n * tempo = 6000 * (i - 1) * b[i].time.d
                        /\ FracLt(b[i].time, Frac(duration, 1))
                        /\ b[i].confidence = 5
                  /\ Len(b) * 6000 >= duration * tempo
          IN
          /\ status["tempo"] \in {"TimedOut", "Failed"} => ValueOfTempo = 12000
          /\ status["beats_tempo"] \in {"TimedOut", "Failed"} => corrected_bpm = 12000
          /\ status["key"] = "Failed" =>
                ValueOfKey = <<<<"C", " ", "m", "a", "j", "o", "r">>, 440>>
          /\ status["key"] # "TimedOut"
          /\ status["chords"] \in {"TimedOut", "Failed"} => ValueOfChords = <<>>
          /\ status["beats"] = "Failed" => ReturnedBeats = <<>>
          /\ status["beats"] = "TimedOut" => IsBeatGrid(ReturnedBeats, corrected_bpm)
          /\ status["sections"] = "Failed" => ret.value = <<>>
          /\ status["sections"] = "TimedOut" =>
                /\ Len(ret.value) \in 3 .. 6
                /\ \A i \in 1 .. Len(ret.value) :
                      /\ ret.value[i].confidence = 5
                      /\ ret.value[i].start_time = Frac((i - 1) * duration, Len(ret.value))
                      /\ ret.value[i].end_time = Frac(i * duration, Len(ret.value))
          /\ entry = "analyze_music" =>
                /\ Finished("tempo") => status["key"] # "Pending"
                /\ Finished("key") => status["chords"] # "Pending"
                /\ Finished("chords") => status["beats"] # "Pending")

\* analyze_music went on after a tempo timeout, a key failure and a chord
\* timeout, and its beat grid comes from a beat tracking timeout
C16_Witness ==
    /\ entry = "analyze_music"
    /\ pc = "done"
    /\ status["tempo"] = "TimedOut"
    /\ status["key"] = "Failed"
    /\ status["chords"] = "TimedOut"
    /\ status["beats_tempo"] = "Succeeded"
    /\ status["beats"] = "TimedOut"
    /\ beatsPath = "track_timeout"
    /\ Len(ret.value.beats) > 1
    /\ ret.value.bpm = 12000
    /\ ret.value.key = DefaultKey

\* C11: with bpm 122, the five pop instruments, "I-V-vi-IV" among the
\* common patterns and complexity 0.3, the pop template has confidence 1.0
\* and is ranked first: primary_genre is "pop".
C11_ScenarioE ==
    (entry = "detect_genre_conventions" /\ pc = "done"
        /\ "common_patterns" \in DOMAIN harmonic_analysis
        /\ (\E i \in 1 .. Len(harmonic_analysis.common_patterns) :
                harmonic_analysis.common_patterns[i] = "I-V-vi-IV")
        /\ rhythmic_analysis = [bpm |-> 12200, complexity_score |-> Frac(3, 10)]
        /\ instrumentation = PopInstruments) =>
        /\ ret.value.primary_genre = "pop"
        /\ ret.value.predicted_genres[1].genre = "pop"
        /\ ret.value.predicted_genres[1].confidence = Frac(600, 600)
        /\ Len(ret.value.predicted_genres) = 5

\* scenario E with "I-V-vi-IV" as the only pattern: pop first, rock second
C11_Witness ==
    /\ entry = "detect_genre_conventions"
    /\ pc = "done"
    /\ harmonic_analysis = [common_patterns |-> <<"I-V-vi-IV">>]
    /\ rhythmic_analysis = [bpm |-> 12200, complexity_score |-> Frac(3, 10)]
    /\ instrumentation = PopInstruments
    /\ ret.value.primary_genre = "pop"
    /\ ret.value.predicted_genres[2].genre = "rock"
    /\ Len(ret.value.predicted_genres[1].reasons) = 4

\* C12: primary_genre is "unknown" whenever no template scores above 0, and
\* the genre of the highest score otherwise.
C12_UnknownWithoutScore ==
    (entry = "detect_genre_conventions" /\ pc = "done") =>
        LET top == ret.value.predicted_genres[1]
        IN  /\ \A i \in 1 .. Len(ret.value.predicted_genres) :
                  ret.value.predicted_genres[i].confidence.n <= top.confidence.n
            /\ ret.value.primary_genre =
                  (IF top.confidence.n > 0 THEN top.genre ELSE "unknown")

\* C13: the progression_complexity of a harmonic analysis is
\* min(number of distinct Roman numerals / 7, 1.0), within [0, 1], and the
\* syncopation_index of a rhythmic analysis is within [0, 1].
C13_ComplexityAndSyncopationInUnit ==
    /\ (entry = "analyze_harmonic_progression" /\ pc = "done"
            /\ "progression_complexity" \in DOMAIN ret.value) =>
          LET rn == ret.value.roman_numerals
              distinct == Cardinality({rn[i].roman_numeral : i \in 1 .. Len(rn)})
              c == ret.value.progression_complexity
          IN  /\ c.d > 0 /\ 0 <= c.n /\ c.n <= c.d
              /\ IF distinct >= 7 THEN c.n = c.d ELSE c.n * 7 = distinct * c.d
    /\ (entry = "analyze_rhythmic_complexity" /\ pc = "done") =>
          /\ Len(beats) > 0 <=> "syncopation_index" \in DOMAIN ret.value
          /\ "syncopation_index" \in DOMAIN ret.value =>
                LET x == ret.value.syncopation_index
                IN  x.d > 0 /\ 0 <= x.n /\ x.n <= x.d

\* the twelve roots in C major: all seven numerals of the table, complexity 1.0
C13_Witness ==
    /\ entry = "analyze_harmonic_progression"
    /\ pc = "done"
    /\ chords = ChordsNamed(AllRoots)
    /\ key = CMajor
    /\ "roman_numerals" \in DOMAIN ret.value
    /\ Cardinality({ret.value.roman_numerals[i].roman_numeral : i \in 1 .. 12}) = 7
    /\ ret.value.progression_complexity = Frac(1, 1)

C15_InstancesDoNotInteract ==
    \A i \in DOMAIN instances :
        LET sig == instances[i].signal
            alone ==
                [f \in Features |->
                    CASE f = "tempo" ->
                             IF "hangs" \in {sig["t_onset"], sig["t_cands"]}
                             THEN "TimedOut" ELSE "Succeeded"
                      [] f = "beats_tempo" ->
                             IF "hangs" \in {sig["bt_onset"], sig["bt_cands"]}
                             THEN "TimedOut" ELSE "Succeeded"
                      [] f = "chords" ->
                             IF sig["c_chroma"] = "hangs" THEN "TimedOut" ELSE "Succeeded"
                      [] f = "beats" ->
                             IF "hangs" \in {sig["b_onset"], sig["b_track"]}
                             THEN "TimedOut" ELSE "Succeeded"
                      [] OTHER -> "Succeeded"]
        IN  \A f \in Features :
                instances[i].status[f] \in {"Succeeded", "TimedOut", "Failed"}
                    => instances[i].status[f] = alone[f]

\* C21: with expected = floor(bpm * duration / 60), the tracked beats are
\* replaced by the fixed-interval grid with confidence 0.6 exactly when
\* |actual - expected| > 0.5 * expected, and are returned with confidence 0.8
\* otherwise; so a returned list with confidence 0.8 has a length within half
\* of expected from expected.
C21_BeatSanityCheck ==
    (entry \in {"_extract_beats", "analyze_music"} /\ pc = "done"
        /\ status["beats"] = "Succeeded") =>
        LET expected == (corrected_bpm * duration) \div 6000
            actual == Len(beat_frames)
            off == 2 * (IF actual < expected THEN expected - actual ELSE actual - expected)
                       > expected
            b == ReturnedBeats
        IN  /\ off =>
                  /\ \A i \in 1 .. Len(b) :
                        /\ b[i].confidence = 6
                        /\ b[i].position = i
                        /\ b[i].time.n * corrected_bpm = 6000 * (i - 1) * b[i].time.d
                        /\ FracLt(b[i].time, Frac(duration, 1))
                  /\ Len(b) * 6000 >= duration * corrected_bpm
            /\ ~off =>
                  /\ Len(b) = actual
                  /\ \A i \in 1 .. Len(b) :
                        /\ b[i].confidence = 8
                        /\ b[i].position = i
                        /\ FracEq(b[i].time, Frac(beat_frames[i] * HopLength, SampleRate))
            /\ (Len(b) > 0 /\ b[1].confidence = 8) =>
                  /\ 2 * (Len(b) - expected) <= expected
                  /\ 2 * (expected - Len(b)) <= expected

\* at 92 bpm over 3 s 4 beats are expected; 2 tracked beats are exactly half
\* off and are kept
C21_Witness ==
    /\ entry = "_extract_beats"
    /\ pc = "done"
    /\ status["beats"] = "Succeeded"
    /\ corrected_bpm = 9200
    /\ duration = 3
    /\ Len(beat_frames) = 2
    /\ Len(ret.value) = 2
    /\ ret.value[1].confidence = 8

\* C22: for every chord root and key root among the twelve note names the
\* Roman numeral is the entry of the mode's table at scale_degree =
\* (chord root index - key root index) mod 12, and a degree the table lacks
\* gives the tonic numeral, I in major and i in minor.
C22_RomanNumeralTable ==
    (entry = "analyze_harmonic_progression" /\ pc = "done") =>
        LET major == [d \in 0 .. 11 |->
                         CASE d = 0 -> "I" [] d = 2 -> "ii" [] d = 4 -> "iii" [] d = 5 -> "IV"
                           [] d = 7 -> "V" [] d = 9 -> "vi" [] d = 11 -> "vii°"
                           [] OTHER -> "I"]
            minor == [d \in 0 .. 11 |->
                         CASE d = 0 -> "i" [] d = 2 -> "ii°" [] d = 3 -> "III" [] d = 5 -> "iv"
                           [] d = 7 -> "v" [] d = 8 -> "VI" [] d = 10 -> "VII"
                           [] OTHER -> "i"]
            \* name is the note name n alone or n followed by a space and a quality
            HasRoot(name, n) ==
                /\ Len(name) >= Len(n)
                /\ SubSeq(name, 1, Len(n)) = n
                /\ Len(name) > Len(n) => name[Len(n) + 1] = " "
        IN  \A k \in 1 .. 12, mode \in {"major", "minor"} :
                key = FormatKey(k, mode) =>
                    /\ Len(chords) > 0 /\ (\A i \in 1 .. Len(chords) : chords[i].chord # BlankName)
                          => "roman_numerals" \in DOMAIN ret.value
                    /\ "roman_numerals" \in DOMAIN ret.value =>
                          /\ Len(ret.value.roman_numerals) = Len(chords)
                          /\ \A i \in 1 .. Len(chords), c \in 1 .. 12 :
                                HasRoot(chords[i].chord, NOTE_NAMES[c]) =>
                                    LET degree == (c - k) % 12
                                    IN  /\ ret.value.roman_numerals[i].scale_degree = degree
                                        /\ ret.value.roman_numerals[i].roman_numeral =
                                               (IF mode = "major" THEN major[degree]
                                                ELSE minor[degree])

\* C in E minor: degree (0 - 4) mod 12 = 8, the numeral VI
C22_Witness ==
    /\ entry = "analyze_harmonic_progression"
    /\ pc = "done"
    /\ key = FormatKey(5, "minor")
    /\ Len(chords) = 1
    /\ chords[1].chord = <<"C">>
    /\ "roman_numerals" \in DOMAIN ret.value
    /\ ret.value.roman_numerals[1].scale_degree = 8
    /\ ret.value.roman_numerals[1].roman_numeral = "VI"

\* C23: when the key is malformed or missing (the empty string, the single
\* token "C", or no key at all) the harmonic analysis of a non-empty chord
\* list goes on with root C and mode major and returns the full bundle.
C23_MalformedKeyIsCMajor ==
    (entry = "analyze_harmonic_progression" /\ pc = "done"
        /\ key \in {<<>>, <<"C">>, NoneValue}
        /\ Len(chords) > 0
        /\ \A i \in 1 .. Len(chords) : chords[i].chord # BlankName) =>
        /\ DOMAIN ret.value =
               {"key", "key_root", "key_mode", "roman_numerals", "functional_harmony",
                "common_patterns", "harmonic_rhythm", "cadences", "voice_leading_quality",
                "modulations", "progression_complexity"}
        /\ ret.value.key_root = <<"C">>
        /\ ret.value.key_mode = <<"m", "a", "j", "o", "r">>

\* C24: every adjacent pair of Roman numerals is classified in the priority
\* order authentic (V-I, strength 1.0), plagal (IV-I, 0.8), deceptive (V-vi,
\* 0.6), half (anything-V, 0.5); the cadences returned are exactly the
\* classified pairs, in order, one per pair, each with that type and strength
\* and with the start_time of the pair's second chord.
C24_CadencesByPriority ==
    (entry = "analyze_harmonic_progression" /\ pc = "done"
        /\ "cadences" \in DOMAIN ret.value) =>
        LET rn == ret.value.roman_numerals
            cad == ret.value.cadences
            Type(a, b) ==
                IF a = "V" /\ b = "I" THEN "authentic"
                ELSE IF a = "IV" /\ b = "I" THEN "plagal"
                ELSE IF a = "V" /\ b = "vi" THEN "deceptive"
                ELSE IF b = "V" THEN "half"
                ELSE "none"
            Strength(t) ==
                CASE t = "authentic" -> 10 [] t = "plagal" -> 8
                  [] t = "deceptive" -> 6 [] t = "half" -> 5
            pairs == {i \in 1 .. Len(rn) - 1 :
                         Type(rn[i].roman_numeral, rn[i + 1].roman_numeral) # "none"}
            \* the j-th classified pair
            Pair(j) == CHOOSE i \in pairs : Cardinality({m \in pairs : m <= i}) = j
        IN  /\ Len(cad) = Cardinality(pairs)
            /\ \A j \in 1 .. Len(cad) :
                  LET a == rn[Pair(j)].roman_numeral
                      b == rn[Pair(j) + 1].roman_numeral
                  IN  /\ cad[j].type = Type(a, b)
                      /\ cad[j].strength = Strength(Type(a, b))
                      /\ cad[j].progression = <<a, b>>
                      /\ cad[j].time = chords[Pair(j) + 1].start_time

\* G then A in C major is V-vi: one deceptive cadence of strength 0.6 at the
\* start of the second chord, 0.5 s
C24_Witness ==
    /\ entry = "analyze_harmonic_progression"
    /\ pc = "done"
    /\ key = CMajor
    /\ Len(chords) = 2
    /\ chords[1].chord = <<"G">>
    /\ chords[2].chord = <<"A">>
    /\ "cadences" \in DOMAIN ret.value
    /\ Len(ret.value.cadences) = 1
    /\ ret.value.cadences[1].type = "deceptive"
    /\ ret.value.cadences[1].strength = 6
    /\ ret.value.cadences[1].time = Frac(5, 10)

\* C25: a canonical pattern is reported exactly when its numerals occur as a
\* contiguous run somewhere in the Roman-numeral sequence; each of the six
\* patterns is reported at most once however often it occurs, and a sequence
\* shorter than a pattern never matches it.
C25_PatternsExactlyWhenContiguous ==
    (entry = "analyze_harmonic_progression" /\ pc = "done"
        /\ "common_patterns" \in DOMAIN ret.value) =>
        LET prog == [i \in 1 .. Len(chords) |-> ret.value.roman_numerals[i].roman_numeral]
            found == ret.value.common_patterns
            six == {[name |-> "I-V-vi-IV", run |-> <<"I", "V", "vi", "IV">>],
                    [name |-> "I-IV-V", run |-> <<"I", "IV", "V">>],
                    [name |-> "ii-V-I", run |-> <<"ii", "V", "I">>],
                    [name |-> "I-vi-IV-V", run |-> <<"I", "vi", "IV", "V">>],
                    [name |-> "vi-IV-I-V", run |-> <<"vi", "IV", "I", "V">>],
                    [name |-> "I-V-IV", run |-> <<"I", "V", "IV">>]}
            Occurs(run) ==
                \E i \in 1 .. Len(prog) :
                    /\ i + Len(run) - 1 <= Len(prog)
                    /\ \A m \in 1 .. Len(run) : prog[i + m - 1] = run[m]
        IN  /\ \A p \in six :
                  /\ (\E j \in 1 .. Len(found) : found[j] = p.name) <=> Occurs(p.run)
                  /\ Len(prog) < Len(p.run) => \A j \in 1 .. Len(found) : found[j] # p.name
            /\ \A j \in 1 .. Len(found) : \E p \in six : found[j] = p.name
            /\ \A j, m \in 1 .. Len(found) : j # m => found[j] # found[m]

\* C G A F C G A F in C major holds I-V-vi-IV twice and vi-IV-I-V once: each
\* is reported once
C25_Witness ==
    /\ entry = "analyze_harmonic_progression"
    /\ pc = "done"
    /\ key = CMajor
    /\ chords = ChordsNamed(ScenarioARoots)
    /\ "common_patterns" \in DOMAIN ret.value
    /\ ret.value.common_patterns = <<"I-V-vi-IV", "vi-IV-I-V">>

\* C26: a beat whose phase within the 4-beat bar is within 0.1 of an integer
\* is on the beat, with weight 1.0 when that integer mod 4 is 0 or 2 and 0.5
\* otherwise; any other beat is off the beat with weight 1.0; the
\* syncopation_index is the off-beat weight over the total weight.  So a grid
\* from t = 0 with spacing 60 / bpm has index 0 and a list with every beat
\* off the grid has index 1.
C26_SyncopationWeights ==
    (entry = "analyze_rhythmic_complexity" /\ pc = "done" /\ bpm > 0
        /\ "syncopation_index" \in DOMAIN ret.value) =>
        LET n == Len(beats)
            \* the phase of beat i is phase(i) / unit(i) beats
            phase(i) == (beats[i].time.n * bpm) % (24000 * beats[i].time.d)
            unit(i) == 6000 * beats[i].time.d
            \* a tenth of a beat is 600 * d
            Near(i, k) == /\ phase(i) - k * unit(i) < 600 * beats[i].time.d
                          /\ k * unit(i) - phase(i) < 600 * beats[i].time.d
            strong == {i \in 1 .. n : \E k \in 0 .. 4 : Near(i, k) /\ k % 4 \in {0, 2}}
            weak == {i \in 1 .. n : \E k \in 0 .. 4 : Near(i, k) /\ k % 4 \in {1, 3}}
            off == {i \in 1 .. n : \A k \in 0 .. 4 : ~Near(i, k)}
            \* the weights doubled
            off2 == 2 * Cardinality(off)
            total2 == 2 * Cardinality(strong) + Cardinality(weak) + off2
            index == ret.value.syncopation_index
        IN  /\ index.n * total2 = off2 * index.d
            /\ (\A i \in 1 .. n : beats[i].time.n * bpm = 6000 * (i - 1) * beats[i].time.d)
                  => index.n = 0
            /\ off = 1 .. n => index.n = index.d

\* at 92 bpm the tracked beats at 0 s, 0.499 s and 1.997 s are a strong beat,
\* an off-beat and a weak beat: index 1 / (1 + 0.5 + 1) = 0.4
C26_Witness ==
    /\ entry = "analyze_rhythmic_complexity"
    /\ pc = "done"
    /\ bpm = 9200
    /\ beats = TrackedBeats(<<0, 43, 172>>)
    /\ "syncopation_index" \in DOMAIN ret.value
    /\ FracEq(ret.value.syncopation_index, Frac(2, 5))

\* C27: predicted_genres lists at most 5 of the 6 templates in order of
\* non-increasing confidence; every confidence is the sum of the four scoring
\* rules (0.3 per matched expected pattern, 0.2 for the tempo in range, 0.3
\* times the share of the expected instruments, 0.2 for a complexity within
\* 0.2) clamped to 1.0, and lies in [0,1]; no template left out has a higher
\* confidence than a listed one; primary_genre is the first listed genre.
C27_GenreRanking ==
    (entry = "detect_genre_conventions" /\ pc = "done") =>
        LET listed == ret.value.predicted_genres
            expected(t) ==
                IF "common_patterns" \in DOMAIN harmonic_analysis
                THEN Cardinality({i \in 1 .. Len(harmonic_analysis.common_patterns) :
                         harmonic_analysis.common_patterns[i] \in t.common_progressions})
                ELSE 0
            tempo == IF "bpm" \in DOMAIN rhythmic_analysis THEN rhythmic_analysis.bpm ELSE 0
            complexity == IF "complexity_score" \in DOMAIN rhythmic_analysis
                          THEN rhythmic_analysis.complexity_score ELSE Frac(0, 1)
            present(t) == {instrumentation[i] : i \in 1 .. Len(instrumentation)}
                              \cap t.instrumentation
            \* the four rules in 1/600
            sum(t) ==
                180 * expected(t)
                + (IF t.bpm_range[1] <= tempo /\ tempo <= t.bpm_range[2] THEN 120 ELSE 0)
                + (180 * Cardinality(present(t))) \div Cardinality(t.instrumentation)
                + (IF /\ 10 * complexity.n - t.rhythmic_complexity * complexity.d
                             < 2 * complexity.d
                      /\ t.rhythmic_complexity * complexity.d - 10 * complexity.n
                             < 2 * complexity.d
                   THEN 120 ELSE 0)
            clamped(t) == IF sum(t) > 600 THEN 600 ELSE sum(t)
            templates == {genre_patterns[i] : i \in 1 .. Len(genre_patterns)}
            omitted == {t \in templates : \A j \in 1 .. Len(listed) : listed[j].genre # t.genre}
        IN  /\ Len(listed) <= 5
            /\ \A j \in 1 .. Len(listed) :
                  /\ \E t \in templates :
                        /\ t.genre = listed[j].genre
                        /\ listed[j].confidence.n * 600 = clamped(t) * listed[j].confidence.d
                  /\ 0 <= listed[j].confidence.n
                  /\ listed[j].confidence.n <= listed[j].confidence.d
                  /\ \A m \in 1 .. Len(listed) : j # m => listed[j].genre # listed[m].genre
                  /\ j > 1 => FracLe(listed[j].confidence, listed[j - 1].confidence)
                  /\ \A t \in omitted :
                        clamped(t) * listed[j].confidence.d <= listed[j].confidence.n * 600
            /\ Len(listed) > 0
            /\ ret.value.primary_genre = listed[1].genre

\* two expected patterns, the tempo, all instruments and the complexity of
\* pop: the sum 1.3 is clamped to 1.0, and one template is left out
C27_Witness ==
    /\ entry = "detect_genre_conventions"
    /\ pc = "done"
    /\ harmonic_analysis = [common_patterns |-> <<"vi-IV-I-V", "I-V-vi-IV">>]
    /\ rhythmic_analysis = [bpm |-> 12200, complexity_score |-> Frac(3, 10)]
    /\ instrumentation = PopInstruments
    /\ Len(ret.value.predicted_genres) = 5
    /\ ret.value.predicted_genres[1].genre = "pop"
    /\ FracEq(ret.value.predicted_genres[1].confidence, Frac(1, 1))
    /\ ret.value.primary_genre = "pop"

\* C28: the bpm _extract_tempo returns never exceeds 160: a selected tempo in
\* (160, 280] is halved into (80, 140], one in (280, 560] is quartered into
\* (70, 140], and one above 560 or below 60 is reset to 120, so nothing in
\* (160, 180] is ever returned.
C28_TempoAtMost160 ==
    /\ tempoTrace.path # "none" => tempoTrace.bpm <= 16000
    /\ (pc = "done" /\ ret.kind = "float") => ret.value <= 16000
    /\ (Finished("tempo") /\ entry = "analyze_music") => bpm <= 16000
    /\ Finished("beats_tempo") => corrected_bpm <= 16000
    /\ tempoTrace.path = "ok" =>
          LET s == tempoTrace.selected
              c == tempoTrace.corrected
              \* the bpm returned is c rounded to 1/100
              returned_c == /\ 10 * tempoTrace.bpm - c <= 5
                            /\ c - 10 * tempoTrace.bpm <= 5
          IN  /\ (160000 < s /\ s <= 280000) =>
                    2 * c = s /\ 80000 < c /\ c <= 140000 /\ returned_c
              /\ (280000 < s /\ s <= 560000) =>
                    4 * c = s /\ 70000 < c /\ c <= 140000 /\ returned_c
              /\ (s > 560000 \/ s < 60000) => tempoTrace.bpm = 12000

\* the lone candidate 180, the top of the documented range, comes back as 90
C28_Witness ==
    /\ entry = "_extract_tempo"
    /\ pc = "done"
    /\ cands = <<180000>>
    /\ tempoTrace.path = "ok"
    /\ tempoTrace.selected = 180000
    /\ ret.value = 9000

\* C29: for a key whose mode is not "major" the harmonic analysis gives every
\* chord the function "tonic" and reports no cadence and no canonical
\* pattern, whatever the chords: the numerals of the minor table (i, ii°,
\* III, iv, v, VI, VII) are none of those the function table, the cadence
\* rules and the six patterns use.
C29_MinorKeysHaveNoFunctions ==
    (entry = "analyze_harmonic_progression" /\ pc = "done"
        /\ key \in {FormatKey(r, "minor") : r \in 1 .. 12}
                   \cup {<<"D", " ", "d", "o", "r", "i", "a", "n">>,
                         <<"E", " ", " ", "m", "i", "n", "o", "r">>}
        /\ "roman_numerals" \in DOMAIN ret.value) =>
        /\ Len(ret.value.functional_harmony) = Len(chords)
        /\ \A i \in 1 .. Len(chords) :
              /\ ret.value.roman_numerals[i].roman_numeral
                     \in {"i", "ii°", "III", "iv", "v", "VI", "VII"}
              /\ ret.value.functional_harmony[i].function = "tonic"
        /\ ret.value.cadences = <<>>
        /\ ret.value.common_patterns = <<>>

\* E then A in A minor is v - i: both are called tonic and no cadence is found
C29_Witness ==
    /\ entry = "analyze_harmonic_progression"
    /\ pc = "done"
    /\ key = FormatKey(10, "minor")
    /\ Len(chords) = 2
    /\ chords[1].chord = <<"E">>
    /\ chords[2].chord = <<"A">>
    /\ "roman_numerals" \in DOMAIN ret.value
    /\ ret.value.roman_numerals[1].roman_numeral = "v"
    /\ ret.value.roman_numerals[2].roman_numeral = "i"
    /\ ret.value.functional_harmony[1].function = "tonic"
    /\ ret.value.cadences = <<>>

====
